---- MODULE Spec2Model ----
(***************************************************************************)
(* A model of athena (PetersonGuo/athena): the conversation store, the     *)
(* tool-result truncation, the tool registry and the LLM tool loop, and    *)
(* the bdb-based execution-control engine with its breakpoint table.       *)
(*                                                                         *)
(* The module holds several specifications over one set of variables;     *)
(* each leaves the variables of the other components at their constructed  *)
(* values:                                                                 *)
(*   SpecConv   the ConversationManager alone, with any cap                *)
(*   SpecTrunc  truncate_string / truncate_tool_result as pure functions   *)
(*   SpecRegistry  ToolRegistry.register / execute called directly         *)
(*   SpecLLM    LLMClient turns over the ToolRegistry                      *)
(*   SpecDbg    SessionRunner, DebuggerCore and BreakpointManager driven  *)
(*              by the trace events of a target run                        *)
(***************************************************************************)
EXTENDS Integers, Sequences, FiniteSets, TLC

VARIABLES
    \* ---- ConversationManager (agent/conversation.py)
    messages,        \* self._messages: sequence of message records
    max_messages,    \* self._max_messages
    nAppended,       \* history: how many messages were appended since the store was empty
    convLastOp,      \* history: the last ConversationManager operation
    \* ---- truncation (utils/truncation.py, ConversationManager.truncate_tool_result)
    tr_s,            \* the input string
    tr_max,          \* the budget (max_length / _max_tool_result_length)
    tr_out,          \* the returned string
    tr_fn,           \* which function produced tr_out
    \* ---- LLMClient / ToolRegistry / ToolExecutor (agent/)
    llm_pc,          \* position of the turn: "idle", "request" (about to call the model), "tools"
    llm_streaming,   \* TRUE in send_message_streaming, FALSE in send_message
    llm_rounds,      \* model requests made in the current turn
    write_call_signature_counts,  \* self._write_call_signature_counts
    tool_executor_bound,          \* self._tool_executor is not None
    execution_action,             \* ToolExecutor._execution_action
    pending_calls,   \* tool calls of the current response not yet dispatched
    tool_results,    \* results collected by _process_tool_calls, not yet in the history
    last_dispatch,   \* history: the last _execute_tool call and what became of it
    turn_calls,      \* history: write-tool calls of this turn per (tool, argument dict)
    turn_dispatched, \* history: tool calls dispatched in this turn
    turn_outcome,    \* how the last turn ended
    prev_turn_blocked, \* history: the write calls the guard blocked in the turn before this one
    tool_calls_accum,  \* send_message_streaming: tool_calls_accum, in insertion order
    finish_reason,     \* send_message_streaming: finish_reason of the last chunk read
    last_fragment,     \* history: the tool-call fragment read last, and the entry it met
    turn_fragments,    \* history: tool-call fragments read in this turn
    \* ---- ToolRegistry (agent/tool_registry.py)
    reg_tools,       \* the names in self._tools
    reg_call,        \* history: the last execute(tool_name, tool_input) and what the handler did
    reg_result,      \* history: what that call gave its caller
    \* ---- SessionRunner / DebugSession / DebuggerCore (bdb.Bdb) / bdb.Breakpoint
    dbg_pc,          \* "start" (runner about to build a session), "running", "paused", "ended", "done"
    runs,            \* passes of the runner's loop so far
    initial_breakpoints,  \* runner argument: the file:line specs set before every run
    break_on_entry,       \* runner argument
    stack,           \* the target's call stack, bottom first
    next_frame_id,   \* frames are told apart by a number
    target_phase,    \* "run", "raised" (an exception is in flight in the top frame), "propagate"
    tracing,         \* sys.settrace holds trace_dispatch
    stopframe,       \* Bdb.stopframe
    returnframe,     \* Bdb.returnframe
    stoplineno,      \* Bdb.stoplineno
    bpbynumber,      \* bdb.Breakpoint.bpbynumber[1:], shared by every Bdb instance
    skip_first_stop,      \* DebuggerCore._skip_first_stop
    break_on_exception,   \* DebuggerCore._break_on_exception
    focus_files,          \* DebuggerCore._focus_files
    focus_functions,      \* DebuggerCore._focus_functions
    stop_reason,          \* DebuggerCore._stop_reason while the session handles a stop, "" otherwise
    quitting,             \* DebugSession._quitting
    rerun_requested,      \* DebugSession._rerun_requested
    focus_reject,    \* history: the last candidate stop the focus filter turned down
    resume_log,      \* history: the intent the last pause ended with and what it set
    line_pass,       \* history: the breakpoint hit counts before the last line was run
    \* StateStore and the configuration it is used with
    state_files,     \* the *.json files of the state directory
    mtime_clock,     \* the file system's clock: st_mtime of the newest file
    current_hash,    \* compute_script_hash of each script as it is on disk now
    config_model,    \* DebugConfig.model
    max_auto_states_per_script,  \* DebugConfig.max_auto_states_per_script
    store_result,    \* what the last store operation returned
    auto_save_state, \* DebugConfig.auto_save_state
    last_snapshot,   \* history: the envelope of the last auto-save of the session
    \* DebugSession state that a restore replaces
    watches,         \* WatchManager._watches, in insertion order
    source_lines,    \* the text of each file's lines as they are on disk now
    restore_log,     \* history: the last load_state (what was stored, what was reported)
    perf_checkpoints,        \* DebugSession._perf_checkpoints
    last_perf_comparison,    \* DebugSession._last_perf_comparison
    perf_clock,              \* time.perf_counter_ns
    queued_restore_selector, \* DebugSession._queued_restore_selector
    load_selectors,  \* history: the selectors the runner called load_state with
    \* state_to_dict / state_from_dict
    codec_state,     \* the StateEnvelope given to state_to_dict
    codec_data,      \* the dict handed to state_from_dict
    codec_out,       \* what state_from_dict returned or raised
    \* ---- results of calls made on their own
    bp_result,       \* what BreakpointManager.set_breakpoint / add_from_spec / remove_breakpoint returned
    restored_summary,  \* LLMClient._restored_summary
    load_request,    \* history: the last DebugSession.load_state call and what the store answered
    \* ---- the interactive loops of DebugSession (repl/session.py, repl/input_handler.py)
    repl_phase,      \* which loop is running: "pre_run", "pause", "post_run"; "none" before
    repl_pc,         \* "prompt" while the loop asks for input, else how the loop ended
    repl_keys,       \* history: what the user did at each prompt of the loop
    stdin_isatty,    \* sys.stdin.isatty()
    \* ---- source injection (core/debugger.py, cli/runner.py)
    inj_source,      \* _inject_runtime_breaks: the source text
    inj_break_lines, \* _inject_runtime_breaks: the requested line numbers
    inj_out,         \* _inject_runtime_breaks: the returned text
    inj_specs,       \* _resolve_injected_break_lines: the --inject-break specs
    inj_resolved,    \* _resolve_injected_break_lines: the returned lines and the warnings printed
    repl_turn,       \* history: the last model turn of _repl_loop and what the loop did after it
    rt_snapshot      \* history: the breakpoints capture_state_snapshot stored, and the table then

convVars == <<messages, max_messages, nAppended, convLastOp>>
truncVars == <<tr_s, tr_max, tr_out, tr_fn>>
llmVars == <<llm_pc, llm_streaming, llm_rounds, write_call_signature_counts,
             tool_executor_bound, execution_action, pending_calls, tool_results,
             last_dispatch, turn_calls, turn_dispatched, turn_outcome,
             prev_turn_blocked, tool_calls_accum, finish_reason, last_fragment,
             turn_fragments>>
streamVars == <<tool_calls_accum, finish_reason, last_fragment, turn_fragments>>
regVars == <<reg_tools, reg_call, reg_result>>
stopVars == <<stopframe, returnframe, stoplineno>>
dbgVars == <<dbg_pc, runs, initial_breakpoints, break_on_entry, stack, next_frame_id,
             target_phase, tracing, stopVars, bpbynumber, skip_first_stop,
             break_on_exception, focus_files, focus_functions, stop_reason,
             quitting, rerun_requested, focus_reject, resume_log, line_pass>>
storeVars == <<state_files, mtime_clock, current_hash, config_model,
               max_auto_states_per_script, store_result>>
perfVars == <<perf_checkpoints, last_perf_comparison, perf_clock>>
codecVars == <<codec_state, codec_data, codec_out>>
runnerVars == <<queued_restore_selector, load_selectors>>
ckptVars == <<auto_save_state, last_snapshot>>
replVars == <<repl_phase, repl_pc, repl_keys, stdin_isatty>>
injVars == <<inj_source, inj_break_lines, inj_out, inj_specs, inj_resolved>>
extVars == <<bp_result, restored_summary, load_request, replVars, injVars, repl_turn,
             rt_snapshot>>
saveVars == <<state_files, mtime_clock, last_snapshot>>
sessVars == <<storeVars, watches, source_lines, restore_log, perfVars, codecVars,
              runnerVars, ckptVars, extVars>>
vars == <<convVars, truncVars, llmVars, regVars, dbgVars, sessVars>>

(***************************************************************************)
(* Bounds of the model.                                                    *)
(***************************************************************************)
MaxCap == 4            \* caps 0..MaxCap are tried for the conversation store
MaxAppend == 6         \* messages appended before the store is cleared
MaxStore == 8          \* get_messages is explored while the store is at most this long
MaxBudget == 104       \* truncation budgets 0..MaxBudget
MaxStrLen == 108       \* input strings of length 0..MaxStrLen
MaxHistory == 1        \* a new turn starts while the history is shorter than this
MaxRoundsExplored == 3 \* model requests explored per turn
MaxCallsPerTurn == 4   \* tool calls dispatched in one turn
MaxDirectCalls == 6    \* calls of _execute_tool between two resets of the guard
MaxFragments == 3      \* tool-call fragments streamed in one turn
MaxLine == 2           \* lines 1..MaxLine of every code object
MaxDepth == 2          \* frames on the target's stack
MaxFrames == 2         \* frames created in one run
MaxBreakpoints == 2    \* breakpoints created over the life of the process
MaxRuns == 2           \* runs of the target (one rerun)

(***************************************************************************)
(* Python sequence slicing, s[:k] and s[k:], with negative indices         *)
(* counted from the end and both clamped to the sequence.                  *)
(***************************************************************************)
Min(a, b) == IF a < b THEN a ELSE b
Max(a, b) == IF a > b THEN a ELSE b

\* The index a slice bound k denotes in a sequence of length n.
PyClamp(k, n) == IF k < 0 THEN Max(n + k, 0) ELSE Min(k, n)

\* s[:k]
PySliceTo(s, k) == SubSeq(s, 1, PyClamp(k, Len(s)))

\* s[k:]
PySliceFrom(s, k) == SubSeq(s, PyClamp(k, Len(s)) + 1, Len(s))

(***************************************************************************)
(* The tools, argument payloads and handler outcomes the tool loop is      *)
(* driven with.                                                            *)
(***************************************************************************)
WriteTools == {"replace_text_in_file", "replace_file_contents"}
RegisteredTools == WriteTools \cup {"get_call_stack", "step_into"}
ToolNames == RegisteredTools \cup {"no_such_tool"}

\* An argument payload as the model sends it: a JSON object, written as the
\* sequence of its <<key, value>> items in the order they were emitted (keys
\* are numbered in alphabetical order), or text that is not JSON.
Malformed == <<"not json">>
ArgsAB == << <<1, "x">>, <<2, "y">> >>
ArgsBA == << <<2, "y">>, <<1, "x">> >>
RawArguments == {ArgsAB, ArgsBA, Malformed}
ParsedArguments == {ArgsAB, ArgsBA, <<>>}
\* The argument text of a streamed call arrives in pieces, here one item each.
ArgsA == << <<1, "x">> >>
ArgsB == << <<2, "y">> >>
ArgumentPieces == {ArgsA, ArgsB}

\* The dict a sequence of items denotes: dict equality ignores item order.
DictOf(items) == {items[i] : i \in 1..Len(items)}

\* Sorting the items of a dict by key (json.dumps(..., sort_keys=True)).
RECURSIVE SortedItems(_)
SortedItems(d) ==
    IF d = {} THEN <<>>
    ELSE LET first == CHOOSE it \in d : \A o \in d : it[1] <= o[1]
         IN  <<first>> \o SortedItems(d \ {first})

\* A signature that leaves the arguments out.
ToolCallSignatureNameOnly(name, input_data) == <<name, <<>>>>

\* f"{name}:{json.dumps(input_data, sort_keys=True)}"
ToolCallSignature(name, input_data) == <<name, SortedItems(DictOf(input_data))>>

Signatures == {ToolCallSignature(n, a) : n \in ToolNames,
                                          a \in ParsedArguments \cup ArgumentPieces}
CallKeys == {<<n, DictOf(a)>> : n \in ToolNames, a \in ParsedArguments \cup ArgumentPieces}
WriteCallKeys == {k \in CallKeys : k[1] \in WriteTools}

DefaultMaxMessages == 100
DefaultToolResultMax == 8000
MaxIdenticalWriteCalls == 2

(***************************************************************************)
(* The state of each component after construction.                         *)
(***************************************************************************)
ConvInitDefault ==
    /\ messages = <<>>
    /\ max_messages = DefaultMaxMessages
    /\ nAppended = 0
    /\ convLastOp = "init"

TruncInitDefault ==
    /\ tr_s = <<>>
    /\ tr_max = 0
    /\ tr_out = <<>>
    /\ tr_fn = "none"

NoDispatch == [name |-> "none"]
NoFragment == [index |-> -1]
NoOutcome == [kind |-> "none"]

LLMInitDefault ==
    /\ llm_pc = "idle"
    /\ llm_streaming = FALSE
    /\ llm_rounds = 0
    /\ write_call_signature_counts = [sg \in Signatures |-> 0]
    /\ tool_executor_bound = FALSE
    /\ execution_action = "none"
    /\ pending_calls = <<>>
    /\ tool_results = <<>>
    /\ last_dispatch = NoDispatch
    /\ turn_calls = [k \in WriteCallKeys |-> 0]
    /\ turn_dispatched = 0
    /\ turn_outcome = NoOutcome
    /\ prev_turn_blocked = {}
    /\ tool_calls_accum = <<>>
    /\ finish_reason = "None"
    /\ last_fragment = NoFragment
    /\ turn_fragments = 0

NoCall == [name |-> "none"]

NoResult == [status |-> "none"]

NoSummary == "None"
NoRequest == [status |-> "none"]

NoText == <<"None">>
NoTurn == [n |-> 0]
NoCapture == [status |-> "none"]

ReplInitDefault ==
    /\ repl_phase = "none"
    /\ repl_pc = "none"
    /\ repl_keys = <<>>
    /\ stdin_isatty = TRUE

InjInitDefault ==
    /\ inj_source = NoText
    /\ inj_break_lines = <<>>
    /\ inj_out = NoText
    /\ inj_specs = <<>>
    /\ inj_resolved = NoResult

ExtInit(summary) ==
    /\ bp_result = NoResult
    /\ restored_summary = summary
    /\ load_request = NoRequest
    /\ ReplInitDefault
    /\ InjInitDefault
    /\ repl_turn = NoTurn
    /\ rt_snapshot = NoCapture

ExtInitDefault == ExtInit(NoSummary)

\* ToolExecutor.__init__ registers every tool before the first turn.
RegInitDefault ==
    /\ reg_tools = RegisteredTools
    /\ reg_call = NoCall
    /\ reg_result = NoResult

\* Frame references: a frame's number, None, or Bdb.botframe (the frame
\* of Bdb.run, below the script's module frame).
NoFrame == 0
BotFrame == -1
\* Bdb.stoplineno: 0 stops at any line, StopNever (-1) at none.
StopNever == -1

NoReject == [event |-> "none"]
NoResume == [intent |-> "none"]
NoPass == [valid |-> FALSE]

\* DebuggerCore.__init__ and DebugSession.__init__, no run started.
DbgInitDefault ==
    /\ dbg_pc = "start"
    /\ runs = 0
    /\ initial_breakpoints = {}
    /\ break_on_entry = FALSE
    /\ stack = <<>>
    /\ next_frame_id = 1
    /\ target_phase = "run"
    /\ tracing = FALSE
    /\ stopframe = NoFrame
    /\ returnframe = NoFrame
    /\ stoplineno = 0
    /\ bpbynumber = <<>>
    /\ skip_first_stop = FALSE
    /\ break_on_exception = FALSE
    /\ focus_files = {}
    /\ focus_functions = {}
    /\ stop_reason = ""
    /\ quitting = FALSE
    /\ rerun_requested = FALSE
    /\ focus_reject = NoReject
    /\ resume_log = NoResume
    /\ line_pass = NoPass

\* None where a selector is expected
NoSelector == "None"
NoStoreOp == [op |-> "none"]
NoRestore == [status |-> "none"]
NoComparison == [status |-> "none"]
NoEnvelope == [cls |-> "none"]
NoSnapshot == [reason |-> "none"]
DefaultMaxAutoPerScript == 20

\* DebugSession.__init__ with DebugConfig's defaults but for auto-save (on
\* by default, off with --no-auto-save-state), an empty state directory,
\* and files whose lines all hold the same statement.
SessInit(auto_save) ==
    /\ auto_save_state = auto_save
    /\ last_snapshot = NoSnapshot
    /\ ExtInitDefault
    /\ state_files = {}
    /\ mtime_clock = 0
    /\ current_hash = [f \in {"a.py", "b.py"} |-> "h1"]
    /\ config_model = "m1"
    /\ max_auto_states_per_script = DefaultMaxAutoPerScript
    /\ store_result = NoStoreOp
    /\ watches = <<>>
    /\ source_lines = [f \in {"a.py", "b.py"} |-> [l \in 1..MaxLine |-> "s"]]
    /\ restore_log = NoRestore
    /\ perf_checkpoints = <<>>
    /\ last_perf_comparison = NoComparison
    /\ perf_clock = 0
    /\ queued_restore_selector = NoSelector
    /\ load_selectors = <<>>
    /\ codec_state = NoEnvelope
    /\ codec_data = NoEnvelope
    /\ codec_out = NoEnvelope

SessInitDefault == SessInit(FALSE)

(***************************************************************************)
(* ConversationManager                                                     *)
(***************************************************************************)
Roles == {"user", "assistant", "tool"}

\* A message: its role, the tool calls an assistant message carries, the
\* tool_call_id of a tool result, and (history) its position in append order.
Msg(role, calls, call_id, n) ==
    [role |-> role, calls |-> calls, call_id |-> call_id, seq |-> n]

\* self._messages.append(...)
AppendMessage(msgs, role, calls, call_id, n) ==
    Append(msgs, Msg(role, calls, call_id, n))

\* get_messages: the rolling-window trim.
TrimMessages(msgs, cap) ==
    IF Len(msgs) > cap
    THEN LET keep == cap - 2
         IN  PySliceTo(msgs, 2) \o PySliceFrom(msgs, -keep)
    ELSE msgs

add_user_message ==
    /\ nAppended < MaxAppend
    /\ messages' = AppendMessage(messages, "user", <<>>, "", nAppended + 1)
    /\ nAppended' = nAppended + 1
    /\ convLastOp' = "add"
    /\ UNCHANGED <<max_messages, truncVars, regVars, dbgVars, sessVars, llmVars>>

add_assistant_message ==
    /\ nAppended < MaxAppend
    /\ messages' = AppendMessage(messages, "assistant", <<>>, "", nAppended + 1)
    /\ nAppended' = nAppended + 1
    /\ convLastOp' = "add"
    /\ UNCHANGED <<max_messages, truncVars, regVars, dbgVars, sessVars, llmVars>>

add_tool_result ==
    /\ nAppended < MaxAppend
    /\ messages' = AppendMessage(messages, "tool", <<>>, "tc1", nAppended + 1)
    /\ nAppended' = nAppended + 1
    /\ convLastOp' = "add"
    /\ UNCHANGED <<max_messages, truncVars, regVars, dbgVars, sessVars, llmVars>>

get_messages ==
    /\ Len(messages) <= MaxStore
    /\ messages' = TrimMessages(messages, max_messages)
    /\ convLastOp' = "get"
    /\ UNCHANGED <<max_messages, nAppended, truncVars, regVars, dbgVars, sessVars, llmVars>>

clear ==
    /\ messages' = <<>>
    /\ nAppended' = 0
    /\ convLastOp' = "clear"
    /\ UNCHANGED <<max_messages, truncVars, regVars, dbgVars, sessVars, llmVars>>

\* message_count
message_count == Len(messages)

ConvInit ==
    /\ messages = <<>>
    /\ max_messages \in 0..MaxCap
    /\ nAppended = 0
    /\ convLastOp = "init"
    /\ TruncInitDefault
    /\ LLMInitDefault
    /\ RegInitDefault
    /\ DbgInitDefault
    /\ SessInitDefault

ConvNext ==
    \/ add_user_message
    \/ add_assistant_message
    \/ add_tool_result
    \/ get_messages
    \/ clear

SpecConv == ConvInit /\ [][ConvNext]_vars

\* Claim C8: for every cap and every N > cap, after N messages were appended
\* (and the history was read back with get_messages) the store holds exactly
\* cap messages and its first 2 are the first 2 appended. Stated for the caps
\* that leave room for 2 anchor messages (cap >= 2).
C8_ExactlyCapKeepingFirstTwo ==
    (convLastOp = "get" /\ max_messages >= 2 /\ nAppended > max_messages)
        => /\ Len(messages) = max_messages
           /\ messages[1].seq = 1
           /\ messages[2].seq = 2

\* Claim C9: in every reachable state of the conversation store the number
\* of retained messages is at most the cap. Stated for caps of 3 and more,
\* where the rolling window itself works.
C9_CountAtMostCap ==
    max_messages >= 3 => message_count <= max_messages

(***************************************************************************)
(* Truncation. A string is a sequence of codes: the i-th character of an   *)
(* input is i, a literal character of the marker is 0 and a decimal digit  *)
(* d of the marker is -(d + 1).                                            *)
(***************************************************************************)
InputString(n) == [i \in 1..n |-> i]

Repeat(c, n) == [i \in 1..n |-> c]

\* str(n) for n >= 0, as digit codes.
RECURSIVE Decimal(_)
Decimal(n) ==
    IF n < 10 THEN << -(n + 1) >>
    ELSE Append(Decimal(n \div 10), -((n % 10) + 1))

MarkerHeadLen == 17    \* "\n\n... (truncated "
MarkerTailLen == 13    \* " chars) ...\n\n"
HalfMargin == 50

\* f"\n\n... (truncated {n} chars) ...\n\n"
TruncationMarker(n) ==
    Repeat(0, MarkerHeadLen) \o Decimal(n) \o Repeat(0, MarkerTailLen)

\* utils.truncation.truncate_string
TruncateString(s, max_length) ==
    IF Len(s) <= max_length THEN s
    ELSE LET half == (max_length \div 2) - HalfMargin
         IN  PySliceTo(s, half)
                \o TruncationMarker(Len(s) - max_length)
                \o PySliceFrom(s, -half)

\* ConversationManager.truncate_tool_result
ConvTruncateToolResult(result, max_tool_result_length) ==
    IF Len(result) <= max_tool_result_length THEN result
    ELSE LET half == (max_tool_result_length \div 2) - HalfMargin
         IN  PySliceTo(result, half)
                \o TruncationMarker(Len(result) - max_tool_result_length)
                \o PySliceFrom(result, -half)

truncate_string ==
    /\ tr_fn = "none"
    /\ tr_out' = TruncateString(tr_s, tr_max)
    /\ tr_fn' = "truncate_string"
    /\ UNCHANGED <<tr_s, tr_max, convVars, llmVars, regVars, dbgVars, sessVars>>

truncate_tool_result ==
    /\ tr_fn = "none"
    /\ tr_out' = ConvTruncateToolResult(tr_s, tr_max)
    /\ tr_fn' = "truncate_tool_result"
    /\ UNCHANGED <<tr_s, tr_max, convVars, llmVars, regVars, dbgVars, sessVars>>

TruncInit ==
    /\ tr_s \in {InputString(n) : n \in 0..MaxStrLen}
    /\ tr_max \in 0..MaxBudget
    /\ tr_out = <<>>
    /\ tr_fn = "none"
    /\ ConvInitDefault
    /\ LLMInitDefault
    /\ RegInitDefault
    /\ DbgInitDefault
    /\ SessInitDefault

TruncNext ==
    \/ truncate_string
    \/ truncate_tool_result

SpecTrunc == TruncInit /\ [][TruncNext]_vars

\* out = (a prefix of s) \o marker \o (a suffix of s)
IsHeadMarkerTail(out, s, marker) ==
    \E p \in 0..Len(s) :
        LET q == Len(out) - Len(marker) - p
        IN  /\ q \in 0..Len(s)
            /\ out = SubSeq(s, 1, p) \o marker \o SubSeq(s, Len(s) - q + 1, Len(s))

\* Claim C10: for every budget and every string longer than the budget, the
\* truncated result is at most budget + marker long and is a prefix of the
\* original, the truncation marker, and a suffix of the original.
C10_TruncatedWithinBudget ==
    (tr_fn # "none" /\ Len(tr_s) > tr_max)
        => LET marker == TruncationMarker(Len(tr_s) - tr_max)
           IN  /\ Len(tr_out) <= tr_max + Len(marker)
               /\ IsHeadMarkerTail(tr_out, tr_s, marker)

(***************************************************************************)
(* ToolRegistry.execute and utils.truncation.truncate_tool_result          *)
(***************************************************************************)
\* What a handler call can do: return a dict json.dumps can serialize, a
\* string, any other object (turned into text with str()), a dict json.dumps
\* rejects (a key that is a tuple, a reference cycle), or raise. "len" is
\* the length of the text the result (or the error payload) serializes to.
ResultLens == {DefaultToolResultMax, DefaultToolResultMax + 1}
RaisedKinds == {"ZeroDivisionError", "TypeError", "KeyboardInterrupt", "SystemExit"}

\* issubclass(kind, Exception): KeyboardInterrupt and SystemExit derive from
\* BaseException only.
DerivesFromException(kind) == kind \in {"ZeroDivisionError", "TypeError"}

Outcome(how, what, len) == [how |-> how, what |-> what, len |-> len]

HandlerOutcomes ==
    {Outcome("return", w, n) : w \in {"dict", "str", "other"}, n \in ResultLens}
        \cup {Outcome("return", "unserializable", DefaultToolResultMax)}
        \cup {Outcome("raise", k, n) : k \in {"ZeroDivisionError"}, n \in ResultLens}
        \cup {Outcome("raise", k, DefaultToolResultMax) : k \in {"KeyboardInterrupt", "SystemExit"}}

\* What the registered handlers of the model do with their arguments:
\* step_into takes no argument, so handler(**tool_input) raises TypeError for
\* any other payload and returns its dict otherwise; the other tools may
\* end in any of the outcomes.
HandlerOutcomesOf(tool_name, tool_input) ==
    IF tool_name = "step_into"
    THEN IF tool_input = <<>>
         THEN {Outcome("return", "dict", DefaultToolResultMax)}
         ELSE {Outcome("raise", "TypeError", DefaultToolResultMax)}
    ELSE HandlerOutcomes

\* A result string: what it carries, and whether truncate_string cut it.
Returned(payload, detail, cut) ==
    [status |-> "returned", payload |-> payload, detail |-> detail, cut |-> cut,
     repeated_calls |-> 0]
Raised(kind) ==
    [status |-> "raised", payload |-> "none", detail |-> kind, cut |-> FALSE,
     repeated_calls |-> 0]

\* truncate_tool_result(result, max_length=8000): serialize, then
\* truncate_string, which leaves a text of at most max_length as it is.
TruncateToolResult(payload, detail, len) ==
    Returned(payload, detail, len > DefaultToolResultMax)

\* ToolRegistry.execute
RegistryExecute(tools, tool_name, outcome) ==
    IF tool_name \notin tools
    THEN Returned("error", "Unknown tool", FALSE)
    ELSE IF outcome.how = "raise"
         THEN IF DerivesFromException(outcome.what)
              THEN TruncateToolResult("error", outcome.what, outcome.len)
              ELSE Raised(outcome.what)
         ELSE IF outcome.what = "unserializable"
              THEN Raised("TypeError")
              ELSE TruncateToolResult("value", outcome.what, outcome.len)

\* ToolRegistry.register
register ==
    /\ \E name \in RegisteredTools : reg_tools' = reg_tools \cup {name}
    /\ UNCHANGED <<reg_call, reg_result, convVars, truncVars, llmVars, dbgVars, sessVars>>

\* ToolRegistry.execute, called directly with any name, arguments and
\* handler behaviour.
execute ==
    /\ \E tool_name \in ToolNames, tool_input \in ParsedArguments :
         \E outcome \in HandlerOutcomesOf(tool_name, tool_input) :
           /\ reg_call' = [name |-> tool_name, input |-> DictOf(tool_input),
                           handler_called |-> tool_name \in reg_tools,
                           outcome |-> outcome]
           /\ reg_result' = RegistryExecute(reg_tools, tool_name, outcome)
    /\ UNCHANGED <<reg_tools, convVars, truncVars, llmVars, dbgVars, sessVars>>

RegInit ==
    /\ reg_tools = {}
    /\ reg_call = NoCall
    /\ reg_result = NoResult
    /\ ConvInitDefault
    /\ TruncInitDefault
    /\ LLMInitDefault
    /\ DbgInitDefault
    /\ SessInitDefault

RegNext ==
    \/ register
    \/ execute

SpecRegistry == RegInit /\ [][RegNext]_vars

\* C3: ToolRegistry.execute returns a result string for every tool name and
\* every handler outcome; whatever a handler raises comes back as the error
\* payload {"error": "<Kind>: <message>"} and nothing leaves execute as an
\* exception.
C3_ExecuteAlwaysReturnsString ==
    reg_call # NoCall =>
        /\ reg_result.status = "returned"
        /\ (reg_call.handler_called /\ reg_call.outcome.how = "raise") =>
               /\ reg_result.payload = "error"
               /\ reg_result.detail = reg_call.outcome.what

(***************************************************************************)
(* LLMClient                                                               *)
(***************************************************************************)
\* json.loads(arguments) if arguments else {}, malformed JSON giving {}.
ParseArguments(arguments) == IF arguments = Malformed THEN <<>> ELSE arguments

\* _execute_tool with the guard tripping one call early (count >= limit).
ExecuteToolGuardAtLimit(name, input_data, outcome, counts, bound, tools) ==
    IF ~bound
    THEN [result |-> Returned("error", "No tool executor configured", FALSE),
          counts |-> counts, reached_registry |-> FALSE]
    ELSE IF name \in WriteTools
         THEN LET signature == ToolCallSignature(name, input_data)
                  count == counts[signature] + 1
                  counted == [counts EXCEPT ![signature] = count]
              IN  IF count >= MaxIdenticalWriteCalls
                  THEN [result |-> [Returned("error", "Loop guard", FALSE)
                                        EXCEPT !.repeated_calls = count],
                        counts |-> counted, reached_registry |-> FALSE]
                  ELSE [result |-> RegistryExecute(tools, name, outcome),
                        counts |-> counted, reached_registry |-> TRUE]
         ELSE [result |-> RegistryExecute(tools, name, outcome),
               counts |-> counts, reached_registry |-> TRUE]

\* LLMClient._execute_tool: the result, the updated signature counts and
\* whether the call was handed to the registry.
ExecuteTool(name, input_data, outcome, counts, bound, tools) ==
    IF ~bound
    THEN [result |-> Returned("error", "No tool executor configured", FALSE),
          counts |-> counts, reached_registry |-> FALSE]
    ELSE IF name \in WriteTools
         THEN LET signature == ToolCallSignature(name, input_data)
                  count == counts[signature] + 1
                  counted == [counts EXCEPT ![signature] = count]
              IN  IF count > MaxIdenticalWriteCalls
                  THEN [result |-> [Returned("error", "Loop guard", FALSE)
                                        EXCEPT !.repeated_calls = count],
                        counts |-> counted, reached_registry |-> FALSE]
                  ELSE [result |-> RegistryExecute(tools, name, outcome),
                        counts |-> counted, reached_registry |-> TRUE]
         ELSE [result |-> RegistryExecute(tools, name, outcome),
               counts |-> counts, reached_registry |-> TRUE]

\* The counts left as the turn before left them.
KeepToolCallGuards == write_call_signature_counts

\* _reset_tool_call_guards
ResetToolCallGuards == [sg \in Signatures |-> 0]

\* A tool call of a response: id, function name, raw argument text.
ToolCall(id, name, arguments) == [id |-> id, name |-> name, arguments |-> arguments]

CallIds == <<"tc1", "tc2">>

\* The ids of a response with n tool calls: the i-th call carries the i-th
\* id. The name and arguments of a call are drawn when it is dispatched.
ResponseCallIds(n) == [i \in 1..n |-> CallIds[i]]
MaxCallsPerRound == Len(CallIds)

\* The tools and handler outcomes the loop is driven with (the registry is
\* driven with all of them in SpecRegistry).
LoopTools == RegisteredTools
LoopOutcomes == {Outcome("return", "dict", DefaultToolResultMax),
                 Outcome("raise", "ZeroDivisionError", DefaultToolResultMax),
                 Outcome("raise", "TypeError", DefaultToolResultMax),
                 Outcome("raise", "KeyboardInterrupt", DefaultToolResultMax)}
LoopOutcomesOf(name) ==
    IF name = "step_into" THEN LoopOutcomes
    ELSE LoopOutcomes \ {Outcome("raise", "TypeError", DefaultToolResultMax)}

\* for result in tool_results: self._conversation.add_tool_result(result)
RECURSIVE AddToolResults(_, _, _)
\* The results appended last first.
AddToolResultsReversed(msgs, results, n) ==
    msgs \o [i \in 1..Len(results) |->
                Msg("tool", <<>>, results[Len(results) + 1 - i].tool_call_id, n + i)]

AddToolResults(msgs, results, n) ==
    IF results = <<>> THEN msgs
    ELSE AddToolResults(AppendMessage(msgs, "tool", <<>>, Head(results).tool_call_id, n + 1),
                        Tail(results), n + 1)

\* The first lines of send_message / send_message_streaming.
StartTurn(streaming) ==
    /\ llm_pc = "idle"
    /\ Len(messages) < MaxHistory
    /\ write_call_signature_counts' = ResetToolCallGuards
    /\ messages' = AppendMessage(messages, "user", <<>>, "", nAppended + 1)
    /\ nAppended' = nAppended + 1
    /\ convLastOp' = "add"
    /\ llm_pc' = "request"
    /\ llm_streaming' = streaming
    /\ llm_rounds' = 0
    /\ pending_calls' = <<>>
    /\ tool_results' = <<>>
    /\ last_dispatch' = NoDispatch
    /\ turn_calls' = [k \in WriteCallKeys |-> 0]
    /\ turn_dispatched' = 0
    /\ turn_outcome' = NoOutcome
    /\ prev_turn_blocked' = {k \in WriteCallKeys : turn_calls[k] > MaxIdenticalWriteCalls}
    /\ tool_calls_accum' = <<>>
    /\ finish_reason' = "None"
    /\ last_fragment' = NoFragment
    /\ turn_fragments' = 0
    /\ UNCHANGED <<max_messages, tool_executor_bound, execution_action, truncVars, regVars, dbgVars, sessVars>>

send_message == StartTurn(FALSE)

send_message_streaming == StartTurn(TRUE)

\* One pass of the loop up to the response: _build_messages (which trims the
\* history), the request, and the recording of the assistant message.
\* The request fails, or the response is text only, or it carries tool calls.
ModelRequestFails ==
    /\ llm_pc = "request"
    /\ llm_rounds < MaxRoundsExplored
    /\ messages' = TrimMessages(messages, max_messages)
    /\ convLastOp' = "get"
    /\ llm_rounds' = llm_rounds + 1
    /\ llm_pc' = "idle"
    /\ last_dispatch' = NoDispatch
    /\ turn_outcome' = [kind |-> "raised", what |-> "APIError"]
    /\ UNCHANGED <<max_messages, nAppended, llm_streaming,
                   write_call_signature_counts, tool_executor_bound, execution_action,
                   pending_calls, tool_results, turn_calls, turn_dispatched, truncVars, regVars, dbgVars, sessVars>>
    /\ UNCHANGED <<prev_turn_blocked, streamVars>>

ModelRespondsText ==
    /\ llm_pc = "request"
    /\ llm_rounds < MaxRoundsExplored
    /\ messages' = AppendMessage(TrimMessages(messages, max_messages),
                                 "assistant", <<>>, "", nAppended + 1)
    /\ nAppended' = nAppended + 1
    /\ convLastOp' = "add"
    /\ llm_rounds' = llm_rounds + 1
    /\ llm_pc' = "idle"
    /\ last_dispatch' = NoDispatch
    /\ turn_outcome' = [kind |-> "text", what |-> "response"]
    /\ UNCHANGED <<max_messages, llm_streaming,
                   write_call_signature_counts, tool_executor_bound, execution_action,
                   pending_calls, tool_results, turn_calls, turn_dispatched, truncVars, regVars, dbgVars, sessVars>>
    /\ finish_reason' = IF llm_streaming THEN "stop" ELSE finish_reason
    /\ UNCHANGED <<prev_turn_blocked, tool_calls_accum, last_fragment, turn_fragments>>

ModelRespondsToolCalls ==
    /\ llm_pc = "request"
    /\ llm_rounds < MaxRoundsExplored
    /\ \E n \in 1..MaxCallsPerRound :
         /\ turn_dispatched + n <= MaxCallsPerTurn
         /\ \E finish \in IF llm_streaming THEN {"tool_calls", "stop"}
                                           ELSE {"tool_calls"} :
              /\ messages' = AppendMessage(TrimMessages(messages, max_messages),
                                           "assistant", ResponseCallIds(n), "", nAppended + 1)
              /\ nAppended' = nAppended + 1
              /\ convLastOp' = "add"
              /\ llm_rounds' = llm_rounds + 1
              /\ finish_reason' = IF llm_streaming THEN finish ELSE finish_reason
              /\ IF finish = "tool_calls"
                 THEN /\ llm_pc' = "tools"
                      /\ pending_calls' = ResponseCallIds(n)
                      /\ turn_outcome' = turn_outcome
                 ELSE /\ llm_pc' = "idle"
                      /\ pending_calls' = <<>>
                      /\ turn_outcome' = [kind |-> "text", what |-> "response"]
              /\ tool_results' = <<>>
    /\ last_dispatch' = NoDispatch
    /\ UNCHANGED <<max_messages, llm_streaming,
                   write_call_signature_counts, tool_executor_bound, execution_action,
                   turn_calls, turn_dispatched, truncVars, regVars, dbgVars, sessVars>>
    /\ UNCHANGED <<prev_turn_blocked, tool_calls_accum, last_fragment, turn_fragments>>

\* The body of the loop of _process_tool_calls and of
\* _process_accumulated_tool_calls for the call tc: the arguments are
\* parsed, _execute_tool runs, the result is collected; after the last
\* call, the results go into the history and the loop goes back to the
\* request. An exception that leaves _execute_tool leaves the turn.
ProcessToolCall(tc) ==
    LET arguments == ParseArguments(tc.arguments)
        key == <<tc.name, DictOf(arguments)>>
        counted == tool_executor_bound /\ tc.name \in WriteTools
    IN  \E outcome \in HandlerOutcomesOf(tc.name, arguments) \cap LoopOutcomesOf(tc.name) :
        LET r == ExecuteTool(tc.name, arguments, outcome,
                             write_call_signature_counts, tool_executor_bound,
                             reg_tools)
            nth == IF counted THEN turn_calls[key] + 1 ELSE 0
            \* a result entry; its content is r.result, kept in last_dispatch
            results == Append(tool_results, [tool_call_id |-> tc.id])
            handled == r.reached_registry /\ r.result.status = "returned"
                           /\ r.result.payload = "value"
            action == IF tc.name = "step_into" /\ handled
                      THEN "step" ELSE execution_action
            last == Len(pending_calls) = 1
        IN  /\ write_call_signature_counts' = r.counts
            /\ turn_calls' = IF counted
                             THEN [turn_calls EXCEPT ![key] = nth]
                             ELSE turn_calls
            /\ turn_dispatched' = turn_dispatched + 1
            /\ last_dispatch' = [name |-> tc.name,
                                 id |-> tc.id,
                                 result |-> r.result,
                                 reached_registry |-> r.reached_registry,
                                 nth |-> nth]
            /\ IF r.result.status = "raised"
               THEN /\ llm_pc' = "idle"
                    /\ turn_outcome' = [kind |-> "raised", what |-> r.result.detail]
                    /\ pending_calls' = <<>>
                    /\ tool_results' = <<>>
                    /\ execution_action' = action
                    /\ UNCHANGED <<messages, nAppended, convLastOp>>
               ELSE /\ pending_calls' = Tail(pending_calls)
                    /\ turn_outcome' = turn_outcome
                    /\ IF last
                       THEN /\ messages' = AddToolResults(messages, results, nAppended)
                            /\ nAppended' = nAppended + Len(results)
                            /\ convLastOp' = "add"
                            /\ tool_results' = <<>>
                            /\ llm_pc' = "request"
                            \* send_message reads and drops the action;
                            \* send_message_streaming puts it back
                            /\ execution_action' =
                                 IF ~llm_streaming /\ tool_executor_bound
                                 THEN "none" ELSE action
                       ELSE /\ tool_results' = results
                            /\ llm_pc' = "tools"
                            /\ execution_action' = action
                            /\ UNCHANGED <<messages, nAppended, convLastOp>>

\* One pass of the loop of _process_tool_calls (and of
\* _process_accumulated_tool_calls when the stream is taken as a whole):
\* the next call of the response, with any name and arguments.
DispatchToolCall ==
    /\ llm_pc = "tools"
    /\ pending_calls # <<>>
    /\ \E name \in LoopTools, raw \in RawArguments :
         ProcessToolCall(ToolCall(Head(pending_calls), name, raw))
    /\ UNCHANGED <<max_messages, llm_streaming, llm_rounds,
                   tool_executor_bound, truncVars, regVars, dbgVars, sessVars>>
    /\ UNCHANGED <<prev_turn_blocked, streamVars>>

\* set_tool_executor
set_tool_executor ==
    /\ llm_pc = "idle"
    /\ ~tool_executor_bound
    /\ tool_executor_bound' = TRUE
    /\ UNCHANGED <<convVars, truncVars, regVars, dbgVars, sessVars, llm_pc, llm_streaming, llm_rounds,
                   write_call_signature_counts, execution_action, pending_calls,
                   tool_results, last_dispatch, turn_calls, turn_dispatched, turn_outcome,
                   prev_turn_blocked, streamVars>>

\* reset_conversation
reset_conversation ==
    /\ llm_pc = "idle"
    /\ messages # <<>>
    /\ messages' = <<>>
    /\ nAppended' = 0
    /\ convLastOp' = "clear"
    /\ UNCHANGED <<max_messages, truncVars, regVars, dbgVars, sessVars, llmVars>>

LLMInit ==
    /\ ConvInitDefault
    /\ TruncInitDefault
    /\ LLMInitDefault
    /\ RegInitDefault
    /\ DbgInitDefault
    /\ SessInitDefault

LLMNext ==
    \/ set_tool_executor
    \/ reset_conversation
    \/ send_message
    \/ send_message_streaming
    \/ ModelRequestFails
    \/ ModelRespondsText
    \/ ModelRespondsToolCalls
    \/ DispatchToolCall

SpecLLM == LLMInit /\ [][LLMNext]_vars

\* C18: no turn of the tool loop ends with an exception that leaves
\* send_message / send_message_streaming towards the session's REPL loop,
\* whether a model request failed or the registry let a handler's failure
\* through.
C18_NoExceptionLeavesLLMLoop == turn_outcome.kind # "raised"

\* The round cap the test suite configures (client._max_tool_rounds = 2).
MaxToolRounds == 2

\* C1: a turn makes at most the configured number of model requests; when
\* every response carries tool calls the turn ends with the sentinel text
\* instead of asking the model again.
C1_RoundCap == llm_rounds <= MaxToolRounds

\* C2: within one turn, the first two calls of a file-mutating tool with the
\* same arguments are handed to the registry, the third and later ones come
\* back as the loop-guard error carrying the repeat count, and a call of the
\* same tool with other arguments is counted on its own.
C2_WriteLoopGuard ==
    (last_dispatch.name \in WriteTools /\ last_dispatch.nth >= 1) =>
        /\ last_dispatch.nth <= MaxIdenticalWriteCalls =>
               /\ last_dispatch.reached_registry
               /\ last_dispatch.result.detail # "Loop guard"
        /\ last_dispatch.nth > MaxIdenticalWriteCalls =>
               /\ ~last_dispatch.reached_registry
               /\ last_dispatch.result.status = "returned"
               /\ last_dispatch.result.payload = "error"
               /\ last_dispatch.result.detail = "Loop guard"
               /\ last_dispatch.result.repeated_calls = last_dispatch.nth

\* A fourth call, with other arguments, goes through after the third
\* identical call of the same tool was blocked.
C2_Witness ==
    /\ last_dispatch.name \in WriteTools
    /\ last_dispatch.nth = 1
    /\ last_dispatch.reached_registry
    /\ \E k \in WriteCallKeys :
         /\ k[1] = last_dispatch.name
         /\ turn_calls[k] = MaxIdenticalWriteCalls + 1

\* C26: the tool calls of one response are executed one at a time in the
\* order the response lists them, each call's result is collected before the
\* next call starts, and when the last call has run the results enter the
\* history right after the assistant entry that carried the calls, one tool
\* entry per call, in the order of the calls.
C26_ToolCallsRunInEmissionOrder ==
    [][/\ (llm_pc = "tools" /\ turn_dispatched' # turn_dispatched) =>
            /\ turn_dispatched' = turn_dispatched + 1
            /\ last_dispatch'.id = Head(pending_calls)
            /\ llm_pc' = "tools" =>
                   /\ pending_calls' = Tail(pending_calls)
                   /\ tool_results' =
                          Append(tool_results, [tool_call_id |-> Head(pending_calls)])
                   /\ messages' = messages
       /\ (llm_pc = "tools" /\ llm_pc' = "request") =>
            LET assistant == messages[Len(messages)]
                n == Len(assistant.calls)
            IN  /\ assistant.role = "assistant"
                /\ Len(tool_results) = n - 1
                /\ Len(messages') = Len(messages) + n
                /\ SubSeq(messages', 1, Len(messages)) = messages
                /\ \A i \in 1..n :
                     LET entry == messages'[Len(messages) + i]
                     IN  /\ entry.role = "tool"
                         /\ entry.call_id = assistant.calls[i]
                         /\ entry.seq = assistant.seq + i
      ]_vars

\* The second call of a response has run after the first, and both results
\* are in the history behind the assistant entry, first call first.
C26_Witness ==
    /\ llm_pc = "request"
    /\ last_dispatch.name # "none"
    /\ last_dispatch.id = CallIds[2]
    /\ Len(messages) >= 3
    /\ messages[Len(messages) - 2].role = "assistant"
    /\ messages[Len(messages) - 2].calls = ResponseCallIds(2)
    /\ messages[Len(messages) - 1].call_id = CallIds[1]
    /\ messages[Len(messages)].call_id = CallIds[2]

\* C27: the loop guard counts per turn. Every signature count is zero when
\* send_message / send_message_streaming has started a turn, a count is the
\* number of calls with that signature in the current turn only, and a write
\* call the guard blocked in the turn before is handed to the registry again
\* when it is the first call of the next turn.
C27_GuardCountsArePerTurn ==
    /\ (llm_pc = "request" /\ llm_rounds = 0) =>
           \A sg \in Signatures : write_call_signature_counts[sg] = 0
    /\ \A k \in WriteCallKeys :
           write_call_signature_counts[ToolCallSignature(k[1], SortedItems(k[2]))]
               = turn_calls[k]
    /\ \A k \in prev_turn_blocked :
           (turn_dispatched = 1 /\ turn_calls[k] = 1 /\ last_dispatch.name # "none") =>
               /\ last_dispatch.reached_registry
               /\ last_dispatch.result.detail # "Loop guard"

\* The first call of a turn repeats a write call that the guard blocked in
\* the turn before, and the registry executes it.
C27_Witness ==
    /\ turn_dispatched = 1
    /\ \E k \in prev_turn_blocked :
         /\ turn_calls[k] = 1
         /\ last_dispatch.name = k[1]
         /\ last_dispatch.nth = 1
         /\ last_dispatch.reached_registry

(***************************************************************************)
(* StateStore                                                              *)
(* The state directory holds one file per save.  A file is known by the    *)
(* prefix of its name ("auto_" or "manual_"), its st_mtime, whether        *)
(* _read_state can parse it, and the fields of the envelope that load,     *)
(* list_states and prune_auto read: name, meta.script_path, meta.model     *)
(* and meta.script_hash.  Script paths are absolute, so os.path.abspath    *)
(* leaves them as they are.                                                *)
(***************************************************************************)
MaxSaves == 3          \* files written to the state directory
MaxKeep == 2           \* caps 0..MaxKeep on the auto-saves of a script

\* "" is an empty ATHENA_MODEL; compute_script_hash returns "" for a file
\* that is missing or unreadable.
ConfigModels == {"", "m1"}
Hashes == {"", "h1", "h2"}
StateNames == {"n1"}
NoName == "None"

StateFile(id, prefix, name, script, model, hash) ==
    [id |-> id, prefix |-> prefix, name |-> name, script_path |-> script,
     model |-> model, script_hash |-> hash, mtime |-> id, readable |-> TRUE]

\* Every file taken as a state that parses.
ReadStateAny(file) == TRUE

\* StateStore._read_state: None for a file that does not parse
ReadState(file) == file.readable

\* The first element of sorted(..., key=st_mtime, reverse=True)
Newest(files) == CHOOSE f \in files : \A g \in files : g.mtime <= f.mtime

\* StateStore.list_states(script_path): the readable states of the script
ListStates(files, script_path) ==
    {f \in files : ReadState(f) /\ f.script_path = script_path}

\* StateStore._find_named: the newest listed state with that name
FindNamed(files, name, script_path) ==
    {f \in ListStates(files, script_path) : f.name = name}

\* What a load selector can be: "latest" (or nothing), the path of a file
\* written earlier, or a name.
Selectors ==
    {[kind |-> "latest"]}
        \cup {[kind |-> "path", id |-> i] : i \in 1..MaxSaves}
        \cup {[kind |-> "name", name |-> n] : n \in StateNames}

\* The file StateStore.load reads, as a set of at most one element.
SelectedFile(files, selector, script_path) ==
    IF selector.kind = "latest"
    THEN IF ListStates(files, script_path) = {} THEN {}
         ELSE {Newest(ListStates(files, script_path))}
    ELSE IF selector.kind = "path" /\ \E f \in files : f.id = selector.id
    THEN {f \in files : f.id = selector.id}
    ELSE IF selector.kind = "name"
            /\ FindNamed(files, selector.name, script_path) # {}
    THEN {Newest(FindNamed(files, selector.name, script_path))}
    ELSE {}

\* The compatibility warnings of StateStore.load
LoadWarnings(state, script_path, model, hash_now) ==
    (IF state.script_path # script_path THEN {"script_path"} ELSE {})
        \cup (IF model # "" /\ state.model # model THEN {"model"} ELSE {})
        \cup (IF hash_now # "" /\ state.script_hash # ""
                    /\ hash_now # state.script_hash
              THEN {"code_drift"} ELSE {})

\* StateStore.load
StoreLoad(files, selector, script_path, model, hash_now) ==
    LET sel == SelectedFile(files, selector, script_path)
    IN  IF sel = {}
        THEN [op |-> "load", status |-> "error", error |-> "not found"]
        ELSE LET f == CHOOSE x \in sel : TRUE
             IN  IF ~ReadState(f)
                 THEN [op |-> "load", status |-> "error", error |-> "could not parse"]
                 ELSE [op |-> "load", status |-> "ok", state |-> f,
                       script_path |-> script_path, model |-> model,
                       hash_now |-> hash_now,
                       warnings |-> LoadWarnings(f, script_path, model, hash_now),
                       code_drift |-> hash_now # "" /\ f.script_hash # ""
                                         /\ hash_now # f.script_hash]

\* The auto-saves prune_auto collects: auto_*.json files that parse and
\* belong to the script.
AutoFiles(files, script_path) ==
    {f \in files : f.prefix = "auto" /\ ReadState(f) /\ f.script_path = script_path}

\* The place of a file in auto_files after sort(key=st_mtime, reverse=True),
\* counted from 0.
Rank(f, files) == Cardinality({g \in files : g.mtime > f.mtime})

PruneAutoEveryScript(files, script_path, keep_n) ==
    LET auto_files == {f \in files : f.prefix = "auto" /\ ReadState(f)}
    IN  files \ {f \in auto_files :
                    Rank(f, auto_files) >= PyClamp(keep_n, Cardinality(auto_files))}

\* StateStore.prune_auto: the files left after unlinking auto_files[keep_n:]
PruneAuto(files, script_path, keep_n) ==
    LET auto_files == AutoFiles(files, script_path)
    IN  files \ {f \in auto_files :
                    Rank(f, auto_files) >= PyClamp(keep_n, Cardinality(auto_files))}

\* WatchManager.get_watch_list
GetWatchList(ws) == [i \in 1..Len(ws) |-> ws[i].expression]

(***************************************************************************)
(* DebuggerCore (a bdb.Bdb), BreakpointManager and SessionRunner.          *)
(* The target is any program over two files whose frames run their lines   *)
(* in increasing order, call, return and raise; every trace event goes     *)
(* through Bdb.trace_dispatch as CPython delivers it: call events to the   *)
(* global trace function, line / return / exception events to the frame's  *)
(* local one.                                                              *)
(***************************************************************************)
Files == {"a.py", "b.py"}
Script == "b.py"
Lines == 1..MaxLine
Sites == {<<f, l>> : f \in Files, l \in Lines}

\* co_name: the script's module frame, and one function per file.
ModuleName == "<module>"
FuncName(file) == IF file = "a.py" THEN "fa" ELSE "fb"

Frame(id, file, func, line, traced) ==
    [id |-> id, file |-> file, func |-> func, line |-> line, traced |-> traced]

Top == stack[Len(stack)]
ReplaceTop(stk, fr) == [stk EXCEPT ![Len(stk)] = fr]
Pop(stk) == SubSeq(stk, 1, Len(stk) - 1)

\* frame.f_back of the top frame
Back(stk) == IF Len(stk) >= 2 THEN stk[Len(stk) - 1].id ELSE BotFrame

\* bdb.Breakpoint(file, line): a new entry of bpbynumber; a deleted entry
\* (bpbynumber[n] = None) keeps its place.
Breakpoint(file, line) ==
    [file |-> file, line |-> line, live |-> TRUE, enabled |-> TRUE,
     hits |-> 0, ignore |-> 0]
Deleted ==
    [file |-> "", line |-> 0, live |-> FALSE, enabled |-> FALSE,
     hits |-> 0, ignore |-> 0]

\* The keys of Breakpoint.bplist, which Bdb.breaks follows (set_break,
\* clear_break, and _load_breaks in a new instance).
Breaks(table) ==
    {<<table[n].file, table[n].line>> : n \in {i \in 1..Len(table) : table[i].live}}

Hits(table) == [n \in 1..Len(table) |-> table[n].hits]

\* DebuggerCore._should_stop_in_frame (file names are canonical base names)
ShouldStopInFrame(frame) ==
    IF focus_files = {} /\ focus_functions = {} THEN TRUE
    ELSE \/ frame.file \in focus_files
         \/ frame.func \in focus_functions

StopInfo(sf, rf, sl) == [stopframe |-> sf, returnframe |-> rf, stoplineno |-> sl]
CurrentStopInfo == StopInfo(stopframe, returnframe, stoplineno)

\* Bdb.stop_here
StopHere(frame, info) ==
    IF frame.id = info.stopframe
    THEN IF info.stoplineno = StopNever THEN FALSE
         ELSE frame.line >= info.stoplineno
    ELSE info.stopframe = NoFrame

\* Bdb.break_anywhere
BreakAnywhere(file, table) == \E site \in Breaks(table) : site[1] = file

\* bdb.effective: the breakpoints of the line in creation order; each
\* enabled one counts a hit, the first that is not being ignored is the
\* one that breaks, and the ones after it are not looked at.
RECURSIVE Effective(_, _, _, _)
Effective(table, file, line, n) ==
    IF n > Len(table) THEN [table |-> table, bp |-> 0]
    ELSE LET b == table[n]
         IN  IF ~b.live \/ b.file # file \/ b.line # line \/ ~b.enabled
             THEN Effective(table, file, line, n + 1)
             ELSE LET counted == [table EXCEPT ![n].hits = @ + 1]
                  IN  IF b.ignore > 0
                      THEN Effective([counted EXCEPT ![n].ignore = @ - 1],
                                     file, line, n + 1)
                      ELSE [table |-> counted, bp |-> n]

\* Bdb.break_here
BreakHere(frame, table) ==
    IF <<frame.file, frame.line>> \notin Breaks(table)
    THEN [table |-> table, bp |-> 0]
    ELSE Effective(table, frame.file, frame.line, 1)

\* del frame.f_trace for the frames below the one whose trace function is
\* running (it gets trace_dispatch back as the function's return value).
UntracedBelowTop(stk) ==
    [i \in 1..Len(stk) |-> IF i < Len(stk) THEN [stk[i] EXCEPT !.traced = FALSE]
                                            ELSE stk[i]]

\* Bdb.set_continue: what it leaves in the stop info, sys.settrace and the
\* frames' trace functions.
SetContinue(stk, table, trc) ==
    [info |-> StopInfo(BotFrame, NoFrame, StopNever),
     tracing |-> trc /\ Breaks(table) # {},
     stack |-> IF Breaks(table) = {} THEN UntracedBelowTop(stk) ELSE stk]

\* Bdb._set_stopinfo
SetStopInfo(info) ==
    /\ stopframe' = info.stopframe
    /\ returnframe' = info.returnframe
    /\ stoplineno' = info.stoplineno

\* DebugSession.capture_state_snapshot as save_state stores it: the reason,
\* the frame the target is stopped in (depth 0 when no frame is live), the
\* breakpoints, the watch list and the focus filters of that moment.
CaptureStateSnapshot(id, reason, table, stk) ==
    [id |-> id, reason |-> reason, depth |-> Len(stk),
     file |-> IF stk = <<>> THEN "" ELSE stk[Len(stk)].file,
     line |-> IF stk = <<>> THEN 0 ELSE stk[Len(stk)].line,
     breakpoints |-> Breaks(table), watches |-> GetWatchList(watches),
     focus_files |-> focus_files, focus_functions |-> focus_functions]

\* StateStore.save_auto and prune_auto with the configured cap, n times in
\* a row for the running script.
RECURSIVE AutoSaves(_, _, _)
AutoSaves(files, clock, n) ==
    IF n = 0 THEN files
    ELSE AutoSaves(PruneAuto(files \cup {StateFile(clock + 1, "auto", NoName, Script,
                                                   config_model, current_hash[Script])},
                             Script, max_auto_states_per_script),
                   clock + 1, n - 1)

\* A save_state that returns without looking at the session
SaveStatesDisabled(reasons, table, stk) == UNCHANGED saveVars

\* DebugSession.save_state(auto=True, reason=...) once for each reason, with
\* nothing else of the session changing in between: {"status": "disabled"}
\* when auto-save is off, else capture_state_snapshot, save_auto, prune_auto.
SaveStates(reasons, table, stk) ==
    IF ~auto_save_state THEN UNCHANGED saveVars
    ELSE /\ mtime_clock + Len(reasons) <= MaxSaves
         /\ state_files' = AutoSaves(state_files, mtime_clock, Len(reasons))
         /\ mtime_clock' = mtime_clock + Len(reasons)
         /\ last_snapshot' = CaptureStateSnapshot(mtime_clock + Len(reasons),
                                                  reasons[Len(reasons)], table, stk)

\* A checkpoint that is captured once the breakpoint table has changed
SaveOperationCheckpointAfter(operation, stage, table, stk) ==
    SaveStates(<<"op:" \o operation \o ":" \o stage>>, bpbynumber', stk)

\* DebugSession.save_operation_checkpoint
SaveOperationCheckpoint(operation, stage, table, stk) ==
    SaveStates(<<"op:" \o operation \o ":" \o stage>>, table, stk)

\* What no debugger action touches: the other components and the runner's
\* arguments.
DbgFrame ==
    UNCHANGED <<convVars, truncVars, llmVars, regVars, current_hash, config_model,
                max_auto_states_per_script, store_result, auto_save_state, extVars, watches,
                source_lines, perfVars, codecVars, initial_breakpoints,
                break_on_entry, break_on_exception, focus_files, focus_functions>>

\* SessionRunner.run, one pass of its loop up to the first trace event: a
\* new DebugSession and DebuggerCore (whose Bdb loads the breakpoints the
\* class already holds), the initial breakpoints, _skip_first_stop, and
\* run_script -> Bdb.run, which resets the stop info and installs the trace
\* function; the script's module frame is always traced.
SessionRunner_run ==
    /\ dbg_pc = "start"
    /\ runs < MaxRuns
    /\ Len(bpbynumber) + Len(initial_breakpoints) <= MaxBreakpoints
    /\ bpbynumber' = bpbynumber \o
           [i \in 1..Len(initial_breakpoints) |->
               Breakpoint(initial_breakpoints[i][1], initial_breakpoints[i][2])]
    /\ skip_first_stop' = ~break_on_entry
    /\ quitting' = FALSE
    /\ rerun_requested' = FALSE
    /\ SetStopInfo(StopInfo(NoFrame, NoFrame, 0))
    /\ tracing' = TRUE
    /\ stack' = <<Frame(1, Script, ModuleName, 0, TRUE)>>
    /\ next_frame_id' = 2
    /\ target_phase' = "run"
    /\ stop_reason' = ""
    /\ runs' = runs + 1
    /\ dbg_pc' = "running"
    /\ focus_reject' = NoReject
    /\ line_pass' = NoPass
    /\ queued_restore_selector' = NoSelector
    /\ UNCHANGED <<load_selectors, restore_log>>
    /\ UNCHANGED saveVars
    /\ resume_log' = NoResume
    /\ DbgFrame

\* The target calls a function: a call event, Bdb.dispatch_call.
TargetCall ==
    /\ dbg_pc = "running"
    /\ target_phase = "run"
    /\ Top.line >= 1
    /\ Len(stack) < MaxDepth
    /\ next_frame_id <= MaxFrames
    /\ \E file \in Files :
         LET fr == Frame(next_frame_id, file, FuncName(file), 0, FALSE)
             traced == tracing /\ (\/ StopHere(fr, CurrentStopInfo)
                                   \/ BreakAnywhere(file, bpbynumber))
         IN  stack' = Append(stack, [fr EXCEPT !.traced = traced])
    /\ next_frame_id' = next_frame_id + 1
    /\ focus_reject' = NoReject
    /\ line_pass' = NoPass
    /\ UNCHANGED <<dbg_pc, runs, target_phase, tracing, stopVars, bpbynumber,
                   skip_first_stop, stop_reason, quitting, rerun_requested>>
    /\ UNCHANGED <<restore_log, runnerVars>>
    /\ UNCHANGED saveVars
    /\ resume_log' = NoResume
    /\ DbgFrame

\* A user_line that asks the focus filter before it looks at the flag
UserLineFocusFirst(skip, in_focus) ==
    IF ~in_focus THEN "reject" ELSE IF skip THEN "skip" ELSE "stop"

\* DebuggerCore.user_line: what it does with a candidate stop, given
\* _skip_first_stop and _should_stop_in_frame(frame)
UserLine(skip, in_focus) ==
    IF skip THEN "skip" ELSE IF ~in_focus THEN "reject" ELSE "stop"

\* The top frame runs its next line (after an exception it caught, the
\* line of the handler): a line event, Bdb.dispatch_line and
\* DebuggerCore.user_line; at a stop, DebugSession.on_debugger_stop up to
\* the REPL, which saves the state of the stop.
TargetLine ==
    /\ dbg_pc = "running"
    /\ target_phase \in {"run", "raised"}
    /\ \E l \in Lines :
         /\ l > Top.line
         /\ LET fr == [Top EXCEPT !.line = l]
                stk == ReplaceTop(stack, fr)
                dispatched == tracing /\ fr.traced
                stop == StopHere(fr, CurrentStopInfo)
                \* stop_here(frame) or break_here(frame)
                bh == IF dispatched /\ ~stop THEN BreakHere(fr, bpbynumber)
                      ELSE [table |-> bpbynumber, bp |-> 0]
                candidate == dispatched /\ (stop \/ bh.bp # 0)
                sc == SetContinue(stk, bh.table, tracing)
                outcome == UserLine(skip_first_stop, ShouldStopInFrame(fr))
            IN  /\ bpbynumber' = bh.table
                /\ line_pass' = [valid |-> TRUE,
                                 continuing |-> CurrentStopInfo.stopframe = BotFrame
                                                  /\ CurrentStopInfo.stoplineno = StopNever,
                                 before |-> Hits(bpbynumber)]
                /\ IF ~candidate
                   THEN /\ stack' = stk
                        /\ focus_reject' = NoReject
                        /\ UNCHANGED <<stopVars, tracing, skip_first_stop, dbg_pc, stop_reason>>
                        /\ UNCHANGED saveVars
                   ELSE IF outcome = "skip"
                   THEN /\ skip_first_stop' = FALSE
                        /\ SetStopInfo(sc.info)
                        /\ tracing' = sc.tracing
                        /\ stack' = sc.stack
                        /\ focus_reject' = NoReject
                        /\ UNCHANGED <<dbg_pc, stop_reason>>
                        /\ UNCHANGED saveVars
                   ELSE IF outcome = "reject"
                   THEN /\ SetStopInfo(sc.info)
                        /\ tracing' = sc.tracing
                        /\ stack' = sc.stack
                        /\ focus_reject' = [event |-> "line", before |-> CurrentStopInfo,
                                            after |-> sc.info]
                        /\ UNCHANGED <<skip_first_stop, dbg_pc, stop_reason>>
                        /\ UNCHANGED saveVars
                   ELSE /\ stack' = stk
                        /\ dbg_pc' = "paused"
                        /\ stop_reason' = "line"
                        /\ focus_reject' = NoReject
                        /\ UNCHANGED <<stopVars, tracing, skip_first_stop>>
                        /\ SaveStates(<<"stop:line">>, bh.table, stk)
    /\ target_phase' = "run"
    /\ UNCHANGED <<runs, next_frame_id, quitting, rerun_requested>>
    /\ UNCHANGED <<restore_log, runnerVars>>
    /\ resume_log' = NoResume
    /\ DbgFrame

\* Bdb.run is left (the script ended, or BdbQuit came up to it): the trace
\* function is removed; the DebuggerCore of the run is not used for another
\* run, and the model forgets its fields.
EndRun ==
    /\ dbg_pc' = "ended"
    /\ stack' = <<>>
    /\ tracing' = FALSE
    /\ target_phase' = "run"
    /\ next_frame_id' = 1
    /\ skip_first_stop' = FALSE
    /\ SetStopInfo(StopInfo(NoFrame, NoFrame, 0))

\* The rest of Bdb.dispatch_return after user_return, and the frame's end:
\* a finished `next` falls back to stepping and the frame leaves the stack.
CompleteReturn(stk, info, trc, called_user_return) ==
    LET fr == stk[Len(stk)]
        post == IF called_user_return /\ info.stopframe = fr.id
                   /\ info.stoplineno # StopNever
                THEN StopInfo(NoFrame, NoFrame, 0) ELSE info
    IN  IF Len(stk) = 1
        THEN EndRun
        ELSE /\ SetStopInfo(post)
             /\ stack' = Pop(stk)
             /\ tracing' = trc
             /\ dbg_pc' = "running"
             /\ target_phase' = IF target_phase = "raised" THEN "propagate" ELSE "run"
             /\ UNCHANGED <<next_frame_id, skip_first_stop>>

\* The top frame returns, or is unwound by the exception in flight: a
\* return event, Bdb.dispatch_return and DebuggerCore.user_return.
TargetReturn ==
    /\ dbg_pc = "running"
    /\ target_phase \in {"run", "raised"}
    /\ Top.line >= 1
    /\ LET dispatched == tracing /\ Top.traced
           candidate == dispatched /\ (\/ StopHere(Top, CurrentStopInfo)
                                       \/ Top.id = returnframe)
       IN  IF candidate /\ ShouldStopInFrame(Top)
           THEN /\ dbg_pc' = "paused"
                /\ stop_reason' = "return"
                /\ focus_reject' = NoReject
                /\ UNCHANGED <<stack, stopVars, tracing, target_phase, next_frame_id,
                               skip_first_stop>>
                /\ SaveStates(<<"stop:return">>, bpbynumber, stack)
           ELSE /\ focus_reject' = IF candidate
                                   THEN [event |-> "return", before |-> CurrentStopInfo,
                                         after |-> CurrentStopInfo]
                                   ELSE NoReject
                /\ CompleteReturn(stack, CurrentStopInfo, tracing, candidate)
                /\ UNCHANGED stop_reason
                /\ UNCHANGED saveVars
    /\ line_pass' = NoPass
    /\ UNCHANGED <<runs, bpbynumber, quitting, rerun_requested>>
    /\ UNCHANGED <<restore_log, runnerVars>>
    /\ resume_log' = NoResume
    /\ DbgFrame

\* An exception is raised in the top frame, or reaches it from the frame
\* that was just unwound: an exception event, Bdb.dispatch_exception and
\* DebuggerCore.user_exception.
TargetException ==
    /\ dbg_pc = "running"
    /\ \/ target_phase = "propagate"
       \/ target_phase = "run" /\ Top.line >= 1
    /\ target_phase' = "raised"
    /\ LET candidate == tracing /\ Top.traced /\ StopHere(Top, CurrentStopInfo)
       IN  IF candidate /\ break_on_exception
           THEN /\ dbg_pc' = "paused"
                /\ stop_reason' = "exception"
                /\ SaveStates(<<"stop:exception">>, bpbynumber, stack)
           ELSE UNCHANGED <<dbg_pc, stop_reason, saveVars>>
    /\ focus_reject' = NoReject
    /\ line_pass' = NoPass
    /\ UNCHANGED <<runs, stack, next_frame_id, tracing, stopVars, bpbynumber,
                   skip_first_stop, quitting, rerun_requested>>
    /\ UNCHANGED <<restore_log, runnerVars>>
    /\ resume_log' = NoResume
    /\ DbgFrame

\* BreakpointManager.set_breakpoint -> Bdb.set_break, from the REPL of a
\* pause: a new Breakpoint, whatever the table already holds for the line.
set_breakpoint ==
    /\ dbg_pc = "paused"
    /\ Len(bpbynumber) < MaxBreakpoints
    /\ \E site \in Sites : bpbynumber' = Append(bpbynumber, Breakpoint(site[1], site[2]))
    /\ line_pass' = NoPass
    /\ UNCHANGED <<dbg_pc, runs, stack, next_frame_id, target_phase, tracing, stopVars,
                   skip_first_stop, stop_reason, quitting, rerun_requested, focus_reject,
                   resume_log>>
    /\ restore_log' = NoRestore
    /\ UNCHANGED runnerVars
    /\ UNCHANGED saveVars
    /\ DbgFrame

\* Bdb.clear_break: every breakpoint of the line is deleted.
ClearBreak(table, file, line) ==
    [n \in 1..Len(table) |->
        IF table[n].live /\ table[n].file = file /\ table[n].line = line
        THEN Deleted ELSE table[n]]

\* BreakpointManager.remove_breakpoint, by number or by file and line; an
\* unknown number or a line without breakpoints is an error result.
remove_breakpoint ==
    /\ dbg_pc = "paused"
    /\ \/ \E bp_number \in 1..MaxBreakpoints :
            bpbynumber' =
                IF bp_number <= Len(bpbynumber) /\ bpbynumber[bp_number].live
                THEN ClearBreak(bpbynumber, bpbynumber[bp_number].file,
                                bpbynumber[bp_number].line)
                ELSE bpbynumber
       \/ \E site \in Sites :
            bpbynumber' =
                IF site \in Breaks(bpbynumber)
                THEN ClearBreak(bpbynumber, site[1], site[2])
                ELSE bpbynumber
    /\ line_pass' = NoPass
    /\ UNCHANGED <<dbg_pc, runs, stack, next_frame_id, target_phase, tracing, stopVars,
                   skip_first_stop, stop_reason, quitting, rerun_requested, focus_reject,
                   resume_log>>
    /\ restore_log' = NoRestore
    /\ UNCHANGED runnerVars
    /\ UNCHANGED saveVars
    /\ DbgFrame

\* What _execution_action can hold when _repl_loop ends: the intents the
\* commands and tools set, None ("other"), and "until", which
\* set_execution_action takes as it takes any string.
ExecutionActions ==
    {"step", "next", "continue", "return", "until", "quit", "rerun", "other"}

\* DebuggerCore.do_step -> Bdb.set_step, which at a return restores the
\* caller's trace function
do_step ==
    [info |-> StopInfo(NoFrame, NoFrame, 0),
     tracing |-> tracing,
     stack |-> IF stop_reason = "return" /\ Len(stack) >= 2
               THEN [stack EXCEPT ![Len(stack) - 1].traced = TRUE]
               ELSE stack]

\* DebuggerCore.do_next -> Bdb.set_next(frame)
do_next == [info |-> StopInfo(Top.id, NoFrame, 0), tracing |-> tracing, stack |-> stack]

\* DebuggerCore.do_return -> Bdb.set_return(frame)
do_return ==
    [info |-> StopInfo(Back(stack), Top.id, 0), tracing |-> tracing, stack |-> stack]

\* DebuggerCore.do_continue -> Bdb.set_continue
do_continue == SetContinue(stack, bpbynumber, tracing)

\* DebuggerCore.do_until(lineno) -> Bdb.set_until(frame, lineno)
do_until(lineno) ==
    [info |-> StopInfo(Top.id, Top.id, lineno), tracing |-> tracing, stack |-> stack]

\* The do_* call on_debugger_stop makes for an action, at a pause in the
\* top frame: do_continue for anything that is not step, next, continue
\* or return.
ApplyExecutionAction(action) ==
    CASE action = "step" -> do_step
      [] action = "next" -> do_next
      [] action = "continue" -> do_continue
      [] action = "return" -> do_return
      [] OTHER -> do_continue

\* DebugSession.on_debugger_stop from the end of the REPL on: the action is
\* applied and the trace function returns to the target; quit and rerun
\* save the state and raise BdbQuit, which ends Bdb.run.
on_debugger_stop ==
    /\ dbg_pc = "paused"
    /\ \E action \in ExecutionActions :
         IF action \in {"quit", "rerun"}
         THEN /\ SaveStates(<<action>>, bpbynumber, stack)
              /\ resume_log' = NoResume
              /\ quitting' = (action = "quit")
              /\ rerun_requested' = (action = "rerun")
              /\ EndRun
         ELSE LET a == ApplyExecutionAction(action)
              IN  /\ UNCHANGED <<quitting, rerun_requested>>
                  /\ UNCHANGED saveVars
                  /\ resume_log' = [intent |-> action, frame |-> Top.id,
                                    back |-> Back(stack), info |-> a.info]
                  /\ IF stop_reason = "return"
                     THEN CompleteReturn(a.stack, a.info, a.tracing, TRUE)
                     ELSE /\ SetStopInfo(a.info)
                          /\ stack' = a.stack
                          /\ tracing' = a.tracing
                          /\ dbg_pc' = "running"
                          /\ UNCHANGED <<target_phase, next_frame_id, skip_first_stop>>
    /\ stop_reason' = ""
    /\ focus_reject' = NoReject
    /\ line_pass' = NoPass
    /\ UNCHANGED <<runs, bpbynumber>>
    /\ UNCHANGED <<restore_log, runnerVars>>
    /\ DbgFrame

\* SessionRunner.run after run_script, on a terminal: the post-run REPL
\* unless the session is quitting (Bdb.run catches the BdbQuit of a quit or
\* of a rerun at a pause, so stop_reason is never "user_quit"), where the
\* state is saved on entry and again when the user asks to quit or to
\* rerun; then the loop goes round again when a rerun was requested.
SessionRunner_after_run ==
    /\ dbg_pc = "ended"
    /\ \E choice \in {"quit", "rerun"} :
         LET entered == ~quitting
             q == quitting \/ (entered /\ choice = "quit")
             r == rerun_requested \/ (entered /\ choice = "rerun")
         IN  /\ quitting' = q
             /\ rerun_requested' = r
             /\ dbg_pc' = IF r THEN "start" ELSE "done"
             /\ IF entered
                THEN SaveStates(<<"post_run:completed", "post_run_" \o choice>>,
                                bpbynumber, stack)
                ELSE UNCHANGED saveVars
    /\ focus_reject' = NoReject
    /\ line_pass' = NoPass
    /\ UNCHANGED <<runs, stack, next_frame_id, target_phase, tracing, stopVars,
                   bpbynumber, skip_first_stop, stop_reason>>
    /\ UNCHANGED <<restore_log, runnerVars>>
    /\ resume_log' = NoResume
    /\ DbgFrame

\* The runner's arguments: --break-on-entry, --break-on-exception, --focus,
\* --focus-function and the initial breakpoint specs.
DbgInit ==
    /\ dbg_pc = "start"
    /\ runs = 0
    /\ initial_breakpoints \in {<<>>, << <<"a.py", 1>> >>}
    /\ break_on_entry \in BOOLEAN
    /\ stack = <<>>
    /\ next_frame_id = 1
    /\ target_phase = "run"
    /\ tracing = FALSE
    /\ stopframe = NoFrame
    /\ returnframe = NoFrame
    /\ stoplineno = 0
    /\ bpbynumber = <<>>
    /\ skip_first_stop = FALSE
    /\ break_on_exception \in BOOLEAN
    /\ focus_files \in {{}, {"a.py"}}
    /\ focus_functions \in {{}, {"fb"}}
    /\ stop_reason = ""
    /\ quitting = FALSE
    /\ rerun_requested = FALSE
    /\ focus_reject = NoReject
    /\ resume_log = NoResume
    /\ line_pass = NoPass
    /\ ConvInitDefault
    /\ TruncInitDefault
    /\ LLMInitDefault
    /\ RegInitDefault
    /\ SessInitDefault

DbgNext ==
    \/ SessionRunner_run
    \/ TargetCall
    \/ TargetLine
    \/ TargetReturn
    \/ TargetException
    \/ set_breakpoint
    \/ remove_breakpoint
    \/ on_debugger_stop
    \/ SessionRunner_after_run

SpecDbg == DbgInit /\ [][DbgNext]_vars

\* The selectors a user queues; "" stands for a blank argument
RestoreSelectors == {"", "n1"}

\* (selector or "latest").strip() or "latest"
NormalizedSelector(selector) == IF selector = "" THEN "latest" ELSE selector

\* DebugSession.queue_checkpoint_restore, from the REPL of a pause
queue_checkpoint_restore ==
    /\ dbg_pc = "paused"
    /\ \E selector \in RestoreSelectors :
            queued_restore_selector' = NormalizedSelector(selector)
    /\ UNCHANGED <<dbg_pc, runs, stack, next_frame_id, target_phase, tracing, stopVars,
                   bpbynumber, skip_first_stop, stop_reason, quitting, rerun_requested,
                   focus_reject, resume_log, line_pass>>
    /\ UNCHANGED <<load_selectors, restore_log>>
    /\ UNCHANGED saveVars
    /\ DbgFrame

\* The runner with a user who steps, continues, reruns, quits and queues
\* restores; ScriptRunner.run never loads a state, so load_selectors, the
\* (session index, selector) pairs of the load_state calls, stays empty.
RunnerNext ==
    \/ SessionRunner_run
    \/ TargetLine
    \/ TargetReturn
    \/ on_debugger_stop
    \/ queue_checkpoint_restore
    \/ SessionRunner_after_run

SpecRunner == DbgInit /\ [][RunnerNext]_vars

\* C16: every rerun restores with the selector queued during the previous
\* session if one was queued, and with "latest" otherwise.
C16_RerunRestoresQueuedOrLatest ==
    [][(runs >= 1 /\ runs' = runs + 1) =>
        load_selectors' = Append(load_selectors,
            <<runs, IF queued_restore_selector # NoSelector
                    THEN queued_restore_selector ELSE "latest">>)
    ]_vars

\* C4: with focus files {a.py} and no focus functions the debugger pauses
\* only in frames of a.py; every candidate stop in another file (line,
\* return or exception) resumes without the interactive handling.
C4_PausesOnlyInFocus ==
    (dbg_pc = "paused" /\ focus_files = {"a.py"} /\ focus_functions = {}) =>
        Top.file \in focus_files

\* C5: a candidate stop the focus filter turns down resumes the target for
\* that site only: the pending step / next / return intent (the stop info
\* the user's last action left; without break-on-entry no other stop info
\* than continue exists before it) is what it was before the candidate.
C5_RejectedStopKeepsIntent ==
    (focus_reject.event # "none" /\ ~break_on_entry) =>
        focus_reject.after = focus_reject.before

\* C6: while continuing, a pass through a line counts one hit on every
\* enabled breakpoint of that line and none on a disabled one.
C6_EachPassCountsOneHit ==
    (line_pass.valid /\ line_pass.continuing) =>
        \A n \in 1..Len(bpbynumber) :
            (bpbynumber[n].live /\ bpbynumber[n].file = Top.file
                /\ bpbynumber[n].line = Top.line) =>
                bpbynumber[n].hits =
                    line_pass.before[n] + (IF bpbynumber[n].enabled THEN 1 ELSE 0)

\* C7: whatever sequence of set, remove and rerun came before, the table
\* holds at most one breakpoint for a (file, line).
C7_OneBreakpointPerLine ==
    \A i, j \in 1..Len(bpbynumber) :
        (i # j /\ bpbynumber[i].live /\ bpbynumber[j].live) =>
            <<bpbynumber[i].file, bpbynumber[i].line>>
                # <<bpbynumber[j].file, bpbynumber[j].line>>

(***************************************************************************)
(* StateStore and DebugSession.save_state called on their own              *)
(***************************************************************************)
StoreFrame ==
    UNCHANGED <<convVars, truncVars, llmVars, regVars, dbgVars, watches, source_lines,
                restore_log, perfVars, codecVars, runnerVars, ckptVars, extVars>>

\* StateStore.save_auto of a snapshot of the session: the active script,
\* the configured model, the script's hash as it is now.
save_auto ==
    /\ mtime_clock < MaxSaves
    /\ \E script \in Files :
        state_files' = state_files \cup
            {StateFile(mtime_clock + 1, "auto", NoName, script, config_model,
                       current_hash[script])}
    /\ mtime_clock' = mtime_clock + 1
    /\ store_result' = [op |-> "save_auto", id |-> mtime_clock + 1]
    /\ UNCHANGED <<current_hash, config_model, max_auto_states_per_script>>
    /\ StoreFrame

\* StateStore.save_manual
save_manual ==
    /\ mtime_clock < MaxSaves
    /\ \E script \in Files, name \in StateNames :
        state_files' = state_files \cup
            {StateFile(mtime_clock + 1, "manual", name, script, config_model,
                       current_hash[script])}
    /\ mtime_clock' = mtime_clock + 1
    /\ store_result' = [op |-> "save_manual", id |-> mtime_clock + 1]
    /\ UNCHANGED <<current_hash, config_model, max_auto_states_per_script>>
    /\ StoreFrame

\* StateStore.prune_auto(script_path, keep), which returns the number of
\* files it unlinked.
prune_auto ==
    /\ \E script \in Files, keep \in 0..MaxKeep :
        /\ state_files' = PruneAuto(state_files, script, keep)
        /\ store_result' =
            [op |-> "prune_auto", script_path |-> script, keep |-> keep,
             deleted |-> Cardinality(state_files \ PruneAuto(state_files, script, keep))]
    /\ UNCHANGED <<mtime_clock, current_hash, config_model, max_auto_states_per_script>>
    /\ StoreFrame

\* DebugSession.save_state with auto-save enabled: an auto-save is followed
\* by prune_auto with the configured cap, a manual save is not.
save_state ==
    /\ mtime_clock < MaxSaves
    /\ \E script \in Files, auto \in BOOLEAN, name \in StateNames :
        LET written == StateFile(mtime_clock + 1, IF auto THEN "auto" ELSE "manual",
                                 IF auto THEN NoName ELSE name, script, config_model,
                                 current_hash[script])
        IN  IF auto
            THEN /\ state_files' = PruneAuto(state_files \cup {written}, script,
                                             max_auto_states_per_script)
                 /\ store_result' =
                        [op |-> "prune_auto", script_path |-> script,
                         keep |-> max_auto_states_per_script,
                         deleted |-> Cardinality((state_files \cup {written}) \
                            PruneAuto(state_files \cup {written}, script,
                                      max_auto_states_per_script))]
            ELSE /\ state_files' = state_files \cup {written}
                 /\ store_result' = [op |-> "save_manual", id |-> mtime_clock + 1]
    /\ mtime_clock' = mtime_clock + 1
    /\ UNCHANGED <<current_hash, config_model, max_auto_states_per_script>>
    /\ StoreFrame

\* StateStore.load(selector, script_path, model) as DebugSession.load_state
\* calls it: the model is the configured one.
load ==
    /\ \E selector \in Selectors, script \in Files :
        store_result' = StoreLoad(state_files, selector, script, config_model,
                                  current_hash[script])
    /\ UNCHANGED <<state_files, mtime_clock, current_hash, config_model,
                   max_auto_states_per_script>>
    /\ StoreFrame

\* The user edits, deletes or restores the file a.py.
edit_script ==
    /\ \E h \in Hashes \ {current_hash["a.py"]} :
        current_hash' = [current_hash EXCEPT !["a.py"] = h]
    /\ store_result' = NoStoreOp
    /\ UNCHANGED <<state_files, mtime_clock, config_model, max_auto_states_per_script>>
    /\ StoreFrame

\* A state file is damaged on disk; its mtime is left alone.
corrupt_state_file ==
    /\ \E f \in state_files :
        /\ f.readable
        /\ state_files' = (state_files \ {f}) \cup {[f EXCEPT !.readable = FALSE]}
    /\ store_result' = NoStoreOp
    /\ UNCHANGED <<mtime_clock, current_hash, config_model, max_auto_states_per_script>>
    /\ StoreFrame

\* A session is started with another ATHENA_MODEL.
set_config_model ==
    /\ \E m \in ConfigModels \ {config_model} : config_model' = m
    /\ store_result' = NoStoreOp
    /\ UNCHANGED <<state_files, mtime_clock, current_hash, max_auto_states_per_script>>
    /\ StoreFrame

\* What the specifications of the store leave at its defaults.
StoreRest ==
    /\ auto_save_state = TRUE
    /\ last_snapshot = NoSnapshot
    /\ ExtInitDefault
    /\ watches = <<>>
    /\ source_lines = [f \in Files |-> [l \in Lines |-> "s"]]
    /\ restore_log = NoRestore
    /\ perf_checkpoints = <<>>
    /\ last_perf_comparison = NoComparison
    /\ perf_clock = 0
    /\ queued_restore_selector = NoSelector
    /\ load_selectors = <<>>
    /\ codec_state = NoEnvelope
    /\ codec_data = NoEnvelope
    /\ codec_out = NoEnvelope
    /\ ConvInitDefault
    /\ TruncInitDefault
    /\ LLMInitDefault
    /\ RegInitDefault
    /\ DbgInitDefault

\* Saving and pruning, under one model and an unchanged script, with every
\* cap 0..MaxKeep.
StoreInit ==
    /\ state_files = {}
    /\ mtime_clock = 0
    /\ current_hash = [f \in Files |-> "h1"]
    /\ config_model = "m1"
    /\ max_auto_states_per_script \in 0..MaxKeep
    /\ store_result = NoStoreOp
    /\ StoreRest

StoreNext ==
    \/ save_auto
    \/ save_manual
    \/ prune_auto
    \/ save_state
    \/ corrupt_state_file

SpecStore == StoreInit /\ [][StoreNext]_vars

\* Manual saves and loads while the script and the configured model change.
LoadInit ==
    /\ state_files = {}
    /\ mtime_clock = 0
    /\ current_hash = [f \in Files |-> "h1"]
    /\ config_model = "m1"
    /\ max_auto_states_per_script = DefaultMaxAutoPerScript
    /\ store_result = NoStoreOp
    /\ StoreRest

LoadNext ==
    \/ save_manual
    \/ load
    \/ edit_script
    \/ set_config_model
    \/ corrupt_state_file

SpecLoad == LoadInit /\ [][LoadNext]_vars

\* C11: a load that finds a readable state returns it with a warnings list
\* that holds the script-path warning exactly when the stored script path
\* is not the current one, the model warning exactly when the stored model
\* is not the configured one, and the code-drift warning exactly when the
\* stored script hash is not the hash of the file as it is now.
C11_WarningsExactlyOnMismatch ==
    (store_result.op = "load" /\ store_result.status = "ok") =>
        /\ ("script_path" \in store_result.warnings)
                <=> (store_result.state.script_path # store_result.script_path)
        /\ ("model" \in store_result.warnings)
                <=> (store_result.state.model # store_result.model)
        /\ ("code_drift" \in store_result.warnings)
                <=> (store_result.state.script_hash # store_result.hash_now)

Texts == {"", "s"}
Exprs == {"x"}
SearchRadius == 80

\* WatchEntry(expression=...) as add_watch creates it
WatchEntry(expression) ==
    [expression |-> expression, current_value |-> "<not evaluated>",
     previous_value |-> "None", current_type |-> "", error |-> "None",
     changed |-> FALSE, eval_count |-> 0]

\* WatchManager.add_watch: an expression that is watched already is left
AddWatch(ws, expression) ==
    IF \E i \in 1..Len(ws) : ws[i].expression = expression THEN ws
    ELSE Append(ws, WatchEntry(expression))

\* A clear_all that leaves the list as it is
KeepWatches(ws) == ws

\* WatchManager.clear_all
WatchClearAll(ws) == <<>>

RECURSIVE AddWatches(_, _, _)
AddWatches(ws, exprs, i) ==
    IF i > Len(exprs) THEN ws
    ELSE AddWatches(AddWatch(ws, exprs[i]), exprs, i + 1)

\* BreakpointManager.clear_all_breakpoints: every breakpoint is deleted
ClearAllBreakpoints(table) == [n \in 1..Len(table) |-> Deleted]

\* SourceProvider.remap_line_by_snippet; 0 stands for None.
RemapLineBySnippet(lines, preferred_line, snippet, search_radius) ==
    IF snippet = "" THEN preferred_line
    ELSE IF preferred_line \in 1..Len(lines) /\ lines[preferred_line] = snippet
    THEN preferred_line
    ELSE LET start == Max(1, preferred_line - search_radius)
             end == Min(Len(lines), preferred_line + search_radius)
             near == {l \in start..end : lines[l] = snippet}
             anywhere == {l \in 1..Len(lines) : lines[l] = snippet}
         IN  IF near # {} THEN CHOOSE l \in near : \A k \in near : l <= k
             ELSE IF anywhere # {} THEN CHOOSE l \in anywhere : \A k \in anywhere : l <= k
             ELSE 0

\* DebuggerBreakpointState as capture_state_snapshot writes it for a
\* breakpoint without condition that was not hit yet
StoredBreakpoint(file, line, context_snippet, enabled) ==
    [file |-> file, line |-> line, context_snippet |-> context_snippet,
     enabled |-> enabled]

\* BreakpointManager.apply_breakpoint_runtime_state on the breakpoint that
\* was just set
ApplyBreakpointRuntimeState(table, bp) ==
    [table EXCEPT ![Len(table)].enabled = bp.enabled]

\* The loop of _apply_debugger_state over the stored breakpoints: the table
\* and, for every stored breakpoint, the line it was set at (0: skipped)
\* and whether a warning was appended for it.
RECURSIVE ApplyBreakpoints(_, _, _, _, _, _)
ApplyBreakpoints(table, applied, bps, i, code_drift, src) ==
    IF i > Len(bps) THEN [table |-> table, applied |-> applied]
    ELSE LET bp == bps[i]
             remapped == RemapLineBySnippet(src[bp.file], bp.line,
                                            bp.context_snippet, SearchRadius)
             target_line == IF code_drift THEN remapped ELSE bp.line
         IN  IF target_line = 0
             THEN ApplyBreakpoints(table,
                    Append(applied, [bp |-> bp, target |-> 0, warned |-> TRUE]),
                    bps, i + 1, code_drift, src)
             ELSE ApplyBreakpoints(
                    ApplyBreakpointRuntimeState(
                        Append(table, Breakpoint(bp.file, target_line)), bp),
                    Append(applied, [bp |-> bp, target |-> target_line, warned |-> FALSE]),
                    bps, i + 1, code_drift, src)

\* Sequences over S of length 0..n
SeqsUpTo(S, n) == UNION {[1..k -> S] : k \in 0..n}

\* Lists without repetition, as get_watch_list returns them
WatchLists == {ws \in SeqsUpTo(Exprs, Cardinality(Exprs)) :
                    \A i, j \in 1..Len(ws) : i # j => ws[i] # ws[j]}

\* Breakpoints of a.py that were not disabled when the state was saved
StoredBreakpoints ==
    {StoredBreakpoint("a.py", l, t, TRUE) : l \in Lines, t \in Texts}

\* The focus sets a session can hold
FocusPairs == {<<{}, {}>>, <<{"a.py"}, {}>>, <<{}, {"fb"}>>}

\* DebuggerState of an envelope that capture_state_snapshot can have written
StoredDebuggerStates ==
    {[breakpoints |-> bps, watches |-> ws, focus_files |-> fp[1],
      focus_functions |-> fp[2]] :
        bps \in SeqsUpTo(StoredBreakpoints, MaxBreakpoints), ws \in WatchLists,
        fp \in FocusPairs}

EmptyPerf == [checkpoints |-> <<>>, last_comparison |-> NoComparison]

\* What StateStore.load hands to load_state: an error, or a state with the
\* code_drift flag.
Loaded(debugger, perf, code_drift) ==
    [status |-> "ok", debugger |-> debugger, perf |-> perf, code_drift |-> code_drift]
LoadError == [status |-> "error"]

\* What a restore leaves alone.
RestoreFrame ==
    /\ UNCHANGED <<convVars, truncVars, llmVars, regVars, storeVars, codecVars,
                   runnerVars, ckptVars, source_lines, perf_clock>>
    /\ UNCHANGED <<dbg_pc, runs, initial_breakpoints, break_on_entry, stack,
                   next_frame_id, target_phase, tracing, stopVars, skip_first_stop,
                   break_on_exception, stop_reason, quitting, rerun_requested,
                   focus_reject, resume_log>>

\* DebugSession.load_state from the REPL of a pause, given what
\* StateStore.load returned: an error is handed back and nothing changes;
\* otherwise _apply_debugger_state replaces breakpoints, watches and focus,
\* and the perf checkpoints and the last comparison are taken from the
\* state.  (Every line 1..MaxLine exists, so Bdb.set_break never refuses.)
LoadState(loaded) ==
    /\ dbg_pc = "paused"
    /\ IF loaded.status = "error"
       THEN /\ restore_log' = [status |-> "error"]
            /\ UNCHANGED <<bpbynumber, watches, focus_files, focus_functions,
                           perf_checkpoints, last_perf_comparison, line_pass>>
       ELSE LET debugger_state == loaded.debugger
                done == ApplyBreakpoints(ClearAllBreakpoints(bpbynumber), <<>>,
                                         debugger_state.breakpoints, 1,
                                         loaded.code_drift, source_lines)
            IN  /\ Len(bpbynumber) + Len(debugger_state.breakpoints) <= MaxBreakpoints
                /\ bpbynumber' = done.table
                /\ watches' = AddWatches(WatchClearAll(watches), debugger_state.watches, 1)
                /\ focus_files' = debugger_state.focus_files
                /\ focus_functions' = debugger_state.focus_functions
                /\ perf_checkpoints' = loaded.perf.checkpoints
                /\ last_perf_comparison' = loaded.perf.last_comparison
                /\ line_pass' = NoPass
                /\ restore_log' = [status |-> "ok", debugger |-> debugger_state,
                                   code_drift |-> loaded.code_drift,
                                   applied |-> done.applied,
                                   table_before |-> Len(bpbynumber)]
    /\ RestoreFrame

load_state ==
    \E loaded \in {LoadError} \cup
            {Loaded(d, EmptyPerf, c) : d \in StoredDebuggerStates, c \in BOOLEAN} :
        LoadState(loaded) /\ UNCHANGED extVars

\* The session paused at the first line of the script, after the user has
\* set breakpoints in a.py, added watches and focus entries and edited
\* a.py.
RestoreInitWith(files, summary) ==
    /\ dbg_pc = "paused"
    /\ runs = 1
    /\ initial_breakpoints = <<>>
    /\ break_on_entry = TRUE
    /\ stack = <<Frame(1, Script, ModuleName, 1, TRUE)>>
    /\ next_frame_id = 2
    /\ target_phase = "run"
    /\ tracing = TRUE
    /\ stopframe = NoFrame
    /\ returnframe = NoFrame
    /\ stoplineno = 0
    /\ bpbynumber \in SeqsUpTo({Breakpoint("a.py", l) : l \in Lines}, MaxBreakpoints)
    /\ skip_first_stop = FALSE
    /\ break_on_exception = FALSE
    /\ \E fp \in FocusPairs : focus_files = fp[1] /\ focus_functions = fp[2]
    /\ stop_reason = "line"
    /\ quitting = FALSE
    /\ rerun_requested = FALSE
    /\ focus_reject = NoReject
    /\ resume_log = NoResume
    /\ line_pass = IF bpbynumber = <<>>
                   THEN [valid |-> TRUE, continuing |-> FALSE, before |-> <<>>]
                   ELSE NoPass
    /\ state_files = files
    /\ mtime_clock = 0
    /\ current_hash = [f \in Files |-> "h1"]
    /\ config_model = "m1"
    /\ max_auto_states_per_script = DefaultMaxAutoPerScript
    /\ store_result = NoStoreOp
    /\ auto_save_state = FALSE
    /\ last_snapshot = NoSnapshot
    /\ ExtInit(summary)
    /\ watches \in {AddWatches(<<>>, ws, 1) : ws \in WatchLists}
    /\ source_lines \in {[f \in Files |-> IF f = "a.py" THEN lines
                                          ELSE [l \in Lines |-> "s"]] :
                            lines \in [Lines -> Texts]}
    /\ restore_log = NoRestore
    /\ perf_checkpoints = <<>>
    /\ last_perf_comparison = NoComparison
    /\ perf_clock = 0
    /\ queued_restore_selector = NoSelector
    /\ load_selectors = <<>>
    /\ codec_state = NoEnvelope
    /\ codec_data = NoEnvelope
    /\ codec_out = NoEnvelope
    /\ ConvInitDefault
    /\ TruncInitDefault
    /\ LLMInitDefault
    /\ RegInitDefault

RestoreInit == RestoreInitWith({}, NoSummary)

\* One restore from every such state; a restored session is not explored
\* further.
RestoreNext ==
    /\ restore_log = NoRestore
    /\ load_state

SpecRestore == RestoreInit /\ [][RestoreNext]_vars

\* C12: when a state is restored under detected code drift, every stored
\* breakpoint is either set at a line of the current file whose text is the
\* stored snippet, or dropped with a warning.
C12_DriftRemapOrDrop ==
    (restore_log.status = "ok" /\ restore_log.code_drift) =>
        \A i \in 1..Len(restore_log.applied) :
            LET a == restore_log.applied[i]
            IN  IF a.target = 0 THEN a.warned
                ELSE source_lines[a.bp.file][a.target] = a.bp.context_snippet

\* C13: a successful restore leaves exactly the stored watch list and focus
\* sets, deletes every breakpoint the table held before, and every
\* breakpoint it adds comes from the stored list.
C13_RestoreReplaces ==
    [][restore_log'.status = "ok" =>
        LET stored == restore_log'.debugger
            applied == restore_log'.applied
        IN  /\ GetWatchList(watches') = stored.watches
            /\ focus_files' = stored.focus_files
            /\ focus_functions' = stored.focus_functions
            /\ \A n \in 1..Len(bpbynumber) : ~bpbynumber'[n].live
            /\ \A n \in (Len(bpbynumber) + 1)..Len(bpbynumber') :
                    \E i \in 1..Len(applied) :
                        /\ applied[i].target # 0
                        /\ bpbynumber'[n].file = applied[i].bp.file
                        /\ bpbynumber'[n].line = applied[i].target
    ]_vars

\* C13 witness: a restore succeeded in a session that held a live
\* breakpoint, and left a table with a live breakpoint of the stored list.
C13_Witness ==
    /\ restore_log.status = "ok"
    /\ restore_log.table_before > 0
    /\ Len(restore_log.debugger.breakpoints) > 0
    /\ \E n \in 1..Len(bpbynumber) : bpbynumber[n].live
    /\ \E n \in 1..Len(bpbynumber) : ~bpbynumber[n].live

(***************************************************************************)
(* State envelope codec: state_to_dict and state_from_dict                 *)
(* A dataclass instance is a record that carries its class in cls; a dict  *)
(* is a record without it.  A payload is written by state_to_dict or by an *)
(* older version of the tool, and read back by state_from_dict.            *)
(***************************************************************************)
MaxStored == 1
SCHEMA_VERSION == 2

\* dict.get(key, default)
Get(d, key, default) == IF key \in DOMAIN d THEN d[key] ELSE default

EmptyDict == [k \in {} |-> "None"]

\* A dataclass none of whose fields has a default
ConstructAllRequired(cls, required, defaults, given) ==
    IF DOMAIN given # (required \cup DOMAIN defaults)
    THEN [cls |-> "raise", error |-> "TypeError"]
    ELSE [k \in {"cls"} \cup DOMAIN given |->
            IF k = "cls" THEN cls ELSE given[k]]

\* Calling a dataclass with **given: a key that is no field, or a missing
\* field that has no default, is a TypeError; the other missing fields take
\* their defaults.
Construct(cls, required, defaults, given) ==
    IF \/ ~(DOMAIN given \subseteq (required \cup DOMAIN defaults))
       \/ ~(required \subseteq DOMAIN given)
    THEN [cls |-> "raise", error |-> "TypeError"]
    ELSE [k \in {"cls"} \cup DOMAIN given \cup DOMAIN defaults |->
            IF k = "cls" THEN cls
            ELSE IF k \in DOMAIN given THEN given[k] ELSE defaults[k]]

MetaFields == {"schema_version", "script_path", "model", "script_hash"}
StateMeta(given) == Construct("StateMeta", MetaFields, EmptyDict, given)

BreakpointDefaults == [enabled |-> TRUE, context_snippet |-> ""]
DebuggerBreakpointState(given) ==
    Construct("DebuggerBreakpointState", {"file", "line"}, BreakpointDefaults, given)

DebuggerState(breakpoints, ws, files, functions) ==
    [cls |-> "DebuggerState", breakpoints |-> breakpoints, watches |-> ws,
     focus_files |-> files, focus_functions |-> functions]

RuntimeDefaults == [stop_line |-> 0]
RuntimeStateSummary(given) ==
    Construct("RuntimeStateSummary", {"stop_reason"}, RuntimeDefaults, given)

MemoryDefaults == [python_snapshot_labels |-> <<>>]
MemoryStateSummary(given) ==
    Construct("MemoryStateSummary", {}, MemoryDefaults, given)

AgentDefaults == [conversation_summary |-> EmptyDict]
AgentStateSummary(given) ==
    Construct("AgentStateSummary", {}, AgentDefaults, given)

CheckpointDefaults == [stop_line |-> 0]
PerfCheckpointSummary(given) ==
    Construct("PerfCheckpointSummary", {"label", "wall_time_ns"},
              CheckpointDefaults, given)

PerfStateSummary(checkpoints, last_comparison) ==
    [cls |-> "PerfStateSummary", checkpoints |-> checkpoints,
     last_comparison |-> last_comparison]

StateEnvelope(kind, reason, name, meta, debugger, runtime, memory, agent, perf) ==
    [cls |-> "StateEnvelope", kind |-> kind, reason |-> reason, name |-> name,
     meta |-> meta, debugger |-> debugger, runtime |-> runtime,
     memory |-> memory, agent |-> agent, perf |-> perf]

\* dataclasses.asdict on an instance whose fields hold no instances
FieldsOf(obj) == [k \in DOMAIN obj \ {"cls"} |-> obj[k]]

\* dataclasses.asdict on a list of such instances
FieldsOfEach(objs) == [i \in 1..Len(objs) |-> FieldsOf(objs[i])]

\* state_to_dict: asdict(state), which descends into every nested instance
state_to_dict(state) ==
    [kind |-> state.kind, reason |-> state.reason, name |-> state.name,
     meta |-> FieldsOf(state.meta),
     debugger |-> [breakpoints |-> FieldsOfEach(state.debugger.breakpoints),
                   watches |-> state.debugger.watches,
                   focus_files |-> state.debugger.focus_files,
                   focus_functions |-> state.debugger.focus_functions],
     runtime |-> FieldsOf(state.runtime),
     memory |-> FieldsOf(state.memory),
     agent |-> FieldsOf(state.agent),
     perf |-> [checkpoints |-> FieldsOfEach(state.perf.checkpoints),
               last_comparison |-> state.perf.last_comparison]]

AnyRaised(objs) == \E i \in 1..Len(objs) : objs[i].cls = "raise"

\* data.get("perf", {}) or {}
PerfData(data) == Get(data, "perf", EmptyDict)

\* state_from_dict
state_from_dict(data) ==
    IF "meta" \notin DOMAIN data THEN [cls |-> "raise", error |-> "KeyError"]
    ELSE
    LET meta == StateMeta(data.meta)
        debugger_data == Get(data, "debugger", EmptyDict)
        bps == Get(debugger_data, "breakpoints", <<>>)
        breakpoints == [i \in 1..Len(bps) |-> DebuggerBreakpointState(bps[i])]
        debugger == DebuggerState(breakpoints,
                                  Get(debugger_data, "watches", <<>>),
                                  Get(debugger_data, "focus_files", {}),
                                  Get(debugger_data, "focus_functions", {}))
        runtime == RuntimeStateSummary(Get(data, "runtime", EmptyDict))
        memory == MemoryStateSummary(Get(data, "memory", EmptyDict))
        agent == AgentStateSummary(Get(data, "agent", EmptyDict))
        perf_data == PerfData(data)
        cps == Get(perf_data, "checkpoints", <<>>)
        checkpoints == [i \in 1..Len(cps) |-> PerfCheckpointSummary(cps[i])]
        perf == PerfStateSummary(checkpoints,
                                 Get(perf_data, "last_comparison", NoComparison))
    IN  IF \/ AnyRaised(<<meta, runtime, memory, agent>>)
           \/ AnyRaised(breakpoints)
           \/ AnyRaised(checkpoints)
        THEN [cls |-> "raise", error |-> "TypeError"]
        ELSE StateEnvelope(Get(data, "kind", "manual"),
                           Get(data, "reason", "unknown"),
                           Get(data, "name", "None"),
                           meta, debugger, runtime, memory, agent, perf)

\* What an older version of the tool wrote for a state: no perf, an empty
\* memory summary, schema version 1
V1Payload(state) ==
    LET data == state_to_dict(state)
    IN  [k \in DOMAIN data \ {"perf"} |->
            IF k = "meta" THEN [data.meta EXCEPT !.schema_version = 1]
            ELSE IF k = "memory" THEN EmptyDict
            ELSE data[k]]

\* The envelopes of a session
Checkpoints ==
    {PerfCheckpointSummary([label |-> l, wall_time_ns |-> 1]) : l \in {"perf_1", "cp"}}
Comparisons == {NoComparison, [status |-> "ok", from_label |-> "perf_1"]}
Envelopes ==
    {StateEnvelope(kind, "pause", name,
        StateMeta([schema_version |-> SCHEMA_VERSION, script_path |-> "a.py",
                   model |-> "m1", script_hash |-> "h1"]),
        DebuggerState(bps, <<>>, {}, {}),
        RuntimeStateSummary([stop_reason |-> "line", stop_line |-> 1]),
        MemoryStateSummary([python_snapshot_labels |-> labels]),
        AgentStateSummary(EmptyDict),
        PerfStateSummary(cps, cmp)) :
        kind \in {"auto", "manual"}, name \in {"None", "n1"},
        bps \in SeqsUpTo({DebuggerBreakpointState(bp) : bp \in StoredBreakpoints}, MaxStored),
        labels \in {<<>>, <<"snap">>},
        cps \in SeqsUpTo(Checkpoints, MaxStored), cmp \in Comparisons}

CodecFrame ==
    UNCHANGED <<convVars, truncVars, llmVars, regVars, dbgVars, storeVars,
                watches, source_lines, restore_log, perfVars, runnerVars,
                ckptVars, extVars, codec_state>>

\* StateStore._write_state: the envelope is serialized
write_state ==
    /\ codec_data = NoEnvelope
    /\ codec_data' = state_to_dict(codec_state)
    /\ UNCHANGED codec_out
    /\ CodecFrame

\* The same state as an older version of the tool saved it
write_v1_state ==
    /\ codec_data = NoEnvelope
    /\ codec_data' = V1Payload(codec_state)
    /\ UNCHANGED codec_out
    /\ CodecFrame

\* StateStore._read_state: the payload is deserialized
read_state ==
    /\ codec_data # NoEnvelope
    /\ codec_out = NoEnvelope
    /\ codec_out' = state_from_dict(codec_data)
    /\ UNCHANGED codec_data
    /\ CodecFrame

CodecInit ==
    /\ codec_state \in Envelopes
    /\ codec_data = NoEnvelope
    /\ codec_out = NoEnvelope
    /\ state_files = {}
    /\ mtime_clock = 0
    /\ current_hash = [f \in Files |-> "h1"]
    /\ config_model = "m1"
    /\ max_auto_states_per_script = DefaultMaxAutoPerScript
    /\ store_result = NoStoreOp
    /\ auto_save_state = FALSE
    /\ last_snapshot = NoSnapshot
    /\ ExtInitDefault
    /\ watches = <<>>
    /\ source_lines = [f \in Files |-> [l \in Lines |-> "s"]]
    /\ restore_log = NoRestore
    /\ perf_checkpoints = <<>>
    /\ last_perf_comparison = NoComparison
    /\ perf_clock = 0
    /\ queued_restore_selector = NoSelector
    /\ load_selectors = <<>>
    /\ ConvInitDefault
    /\ TruncInitDefault
    /\ LLMInitDefault
    /\ RegInitDefault
    /\ DbgInitDefault

CodecNext == write_state \/ write_v1_state \/ read_state

SpecCodec == CodecInit /\ [][CodecNext]_vars

\* C14: deserializing what state_to_dict wrote gives an equal envelope, and
\* deserializing an older payload that lacks perf gives the envelope of the
\* payload with an empty perf summary.
C14_RoundTripAndDefaults ==
    codec_out # NoEnvelope =>
        IF "perf" \in DOMAIN codec_data
        THEN codec_out = codec_state
        ELSE /\ codec_out.cls = "StateEnvelope"
             /\ codec_out.perf = PerfStateSummary(<<>>, NoComparison)
             /\ codec_out.debugger = codec_state.debugger
             /\ codec_out.runtime = codec_state.runtime
             /\ codec_out.meta.schema_version = 1

\* C14 witness: an older payload without perf was read back for a state
\* that held perf checkpoints and breakpoints
C14_Witness ==
    /\ codec_out # NoEnvelope
    /\ "perf" \notin DOMAIN codec_data
    /\ codec_state.perf.checkpoints # <<>>
    /\ codec_state.debugger.breakpoints # <<>>

(***************************************************************************)
(* WatchManager: add_watch, remove_watch, evaluate_all                     *)
(* The evaluator's answer for an expression is any of two values or an     *)
(* error, at every evaluation.                                             *)
(***************************************************************************)
MaxEvals == 3
WatchExprs == {"x", "y"}

\* ExpressionEvaluator.evaluate: {"result": ..., "type": ...} or {"error": ...}
EvalResults ==
    {[result |-> "1", type |-> "int"], [result |-> "2", type |-> "int"],
     [error |-> "e"]}

\* The body of evaluate_all's loop for one entry
EvaluateEntry(entry, result) ==
    LET shifted == [entry EXCEPT !.previous_value = entry.current_value,
                                 !.eval_count = entry.eval_count + 1]
    IN  IF "error" \in DOMAIN result
        THEN LET current == "<error: " \o result.error \o ">"
             IN  [shifted EXCEPT !.current_value = current,
                                 !.current_type = "",
                                 !.error = result.error,
                                 !.changed = (current # shifted.previous_value)]
        ELSE [shifted EXCEPT !.current_value = result.result,
                             !.current_type = result.type,
                             !.error = "None",
                             !.changed = (shifted.eval_count > 1
                                          /\ result.result # shifted.previous_value)]

WatchFrame ==
    UNCHANGED <<convVars, truncVars, llmVars, regVars, dbgVars, storeVars,
                source_lines, restore_log, perfVars, runnerVars, codecVars, ckptVars, extVars>>

\* WatchManager.add_watch
add_watch ==
    /\ \E expression \in WatchExprs : watches' = AddWatch(watches, expression)
    /\ WatchFrame

\* WatchManager.remove_watch
remove_watch ==
    /\ \E expression \in WatchExprs :
            watches' = SelectSeq(watches, LAMBDA e : e.expression # expression)
    /\ WatchFrame

\* WatchManager.evaluate_all at a stop
evaluate_all ==
    /\ watches # <<>>
    /\ \A i \in 1..Len(watches) : watches[i].eval_count < MaxEvals
    /\ \E results \in [WatchExprs -> EvalResults] :
            watches' = [i \in 1..Len(watches) |->
                            EvaluateEntry(watches[i], results[watches[i].expression])]
    /\ WatchFrame

WatchInit ==
    /\ ConvInitDefault
    /\ TruncInitDefault
    /\ LLMInitDefault
    /\ RegInitDefault
    /\ DbgInitDefault
    /\ SessInitDefault

WatchNext == add_watch \/ remove_watch \/ evaluate_all

SpecWatch == WatchInit /\ [][WatchNext]_vars

\* C17: a watch's changed flag is false after its first evaluation, value
\* or error; from the second evaluation on it is true exactly when the
\* current value differs from the previous one.
C17_ChangedOnlyFromSecondEvaluation ==
    \A i \in 1..Len(watches) :
        LET e == watches[i]
        IN  /\ e.eval_count <= 1 => ~e.changed
            /\ e.eval_count >= 2 => (e.changed <=> e.current_value # e.previous_value)

(***************************************************************************)
(* Perf checkpoints: create_perf_checkpoint, compare_perf_checkpoints and  *)
(* the perf part of load_state                                             *)
(* The session is paused at the script's first line; the states it loads   *)
(* were saved by this or an earlier session of the script.                 *)
(***************************************************************************)
MaxCheckpoints == 3

\* The label argument: None, or a label the user chose
LabelArgs == {"None", "cp", "perf_2"}

\* label or f"perf_{len(self._perf_checkpoints) + 1}"
ResolvedLabel(label, checkpoints) ==
    IF label \in {"None", ""} THEN "perf_" \o ToString(Len(checkpoints) + 1)
    ELSE label

\* DebugSession._find_perf_checkpoint: the index of the first checkpoint
\* with the label, 0 for None
FindPerfCheckpoint(checkpoints, label) ==
    IF \E i \in 1..Len(checkpoints) : checkpoints[i].label = label
    THEN CHOOSE i \in 1..Len(checkpoints) :
            /\ checkpoints[i].label = label
            /\ \A j \in 1..(i - 1) : checkpoints[j].label # label
    ELSE 0

PerfFrame ==
    UNCHANGED <<convVars, truncVars, llmVars, regVars, dbgVars, storeVars,
                watches, source_lines, restore_log, runnerVars, codecVars, ckptVars, extVars>>

\* DebugSession.create_perf_checkpoint
create_perf_checkpoint ==
    /\ perf_clock < MaxCheckpoints
    /\ \E label \in LabelArgs :
            perf_checkpoints' = Append(perf_checkpoints,
                PerfCheckpointSummary(
                    [label |-> ResolvedLabel(label, perf_checkpoints),
                     wall_time_ns |-> perf_clock + 1]))
    /\ perf_clock' = perf_clock + 1
    /\ UNCHANGED last_perf_comparison
    /\ PerfFrame

\* DebugSession.compare_perf_checkpoints: an unknown label is an error
\* result and nothing is kept
compare_perf_checkpoints ==
    /\ \E label_a, label_b \in {"cp", "perf_1", "perf_2"} :
        LET a == FindPerfCheckpoint(perf_checkpoints, label_a)
            b == FindPerfCheckpoint(perf_checkpoints, label_b)
        IN  IF a = 0 \/ b = 0
            THEN UNCHANGED last_perf_comparison
            ELSE last_perf_comparison' =
                    [status |-> "ok", label_a |-> label_a, label_b |-> label_b,
                     wall_delta_ns |-> perf_checkpoints[b].wall_time_ns
                                        - perf_checkpoints[a].wall_time_ns]
    /\ UNCHANGED <<perf_checkpoints, perf_clock>>
    /\ PerfFrame

\* The perf summaries of the states on disk
StoredPerfs ==
    {PerfStateSummary(cps, NoComparison) :
        cps \in SeqsUpTo({PerfCheckpointSummary([label |-> "cp", wall_time_ns |-> 0])},
                         MaxStored)}

\* DebugSession.load_state of a state without breakpoints, watches or focus
load_perf_state ==
    \E perf \in StoredPerfs :
        LoadState(Loaded([breakpoints |-> <<>>, watches |-> <<>>,
                          focus_files |-> {}, focus_functions |-> {}],
                         perf, FALSE))
            /\ UNCHANGED extVars

PerfInit ==
    /\ dbg_pc = "paused"
    /\ runs = 1
    /\ initial_breakpoints = <<>>
    /\ break_on_entry = TRUE
    /\ stack = <<Frame(1, Script, ModuleName, 1, TRUE)>>
    /\ next_frame_id = 2
    /\ target_phase = "run"
    /\ tracing = TRUE
    /\ stopframe = NoFrame
    /\ returnframe = NoFrame
    /\ stoplineno = 0
    /\ bpbynumber = <<>>
    /\ skip_first_stop = FALSE
    /\ break_on_exception = FALSE
    /\ focus_files = {}
    /\ focus_functions = {}
    /\ stop_reason = "line"
    /\ quitting = FALSE
    /\ rerun_requested = FALSE
    /\ focus_reject = NoReject
    /\ resume_log = NoResume
    /\ line_pass = [valid |-> TRUE, continuing |-> FALSE, before |-> <<>>]
    /\ ConvInitDefault
    /\ TruncInitDefault
    /\ LLMInitDefault
    /\ RegInitDefault
    /\ SessInitDefault

PerfNext == create_perf_checkpoint \/ compare_perf_checkpoints \/ load_perf_state

SpecPerf == PerfInit /\ [][PerfNext]_vars

\* C19: no two perf checkpoints of the session have the same label.
C19_LabelsUnique ==
    \A i, j \in 1..Len(perf_checkpoints) :
        i # j => perf_checkpoints[i].label # perf_checkpoints[j].label

\* C20: the list of perf checkpoints only grows: every step keeps every
\* checkpoint, with all its fields, at its place.
C20_CheckpointsOnlyGrow ==
    [][/\ Len(perf_checkpoints') >= Len(perf_checkpoints)
       /\ \A i \in 1..Len(perf_checkpoints) :
            perf_checkpoints'[i] = perf_checkpoints[i]
    ]_vars

(***************************************************************************)
(* Checkpoints at pauses, slash commands and file-mutating tools           *)
(* The REPL of a pause runs slash commands (CommandHandler) and the tools  *)
(* the model calls (ToolExecutor); DebugSession.save_state writes the      *)
(* rolling auto checkpoints.                                               *)
(***************************************************************************)
FocusFunctionNames == {"fa"}
FocusFilePaths == {"a.py"}
EditFiles == {"a.py"}
EditTexts == {"", "s", "t"}

\* compute_script_hash of a file whose lines all hold the same statement
ScriptHash(lines) == IF lines[1] = "s" THEN "h1" ELSE "h2"

\* What the commands and tools of a pause leave alone
CmdFrame ==
    UNCHANGED <<convVars, truncVars, llmVars, regVars, config_model,
                max_auto_states_per_script, store_result, auto_save_state, extVars,
                restore_log, perfVars, codecVars, runnerVars, initial_breakpoints,
                break_on_entry, break_on_exception, dbg_pc, runs, stack,
                next_frame_id, target_phase, tracing, stopVars, skip_first_stop,
                stop_reason, quitting, rerun_requested, focus_reject,
                   resume_log>>

\* CommandHandler._break with an argument: the checkpoint, then
\* add_from_spec, which sets the breakpoint of a FILE:LINE spec and returns
\* an error for a spec without a colon.
command_break ==
    /\ dbg_pc = "paused"
    /\ \/ /\ Len(bpbynumber) < MaxBreakpoints
          /\ \E site \in Sites :
                bpbynumber' = Append(bpbynumber, Breakpoint(site[1], site[2]))
       \/ UNCHANGED bpbynumber
    /\ SaveOperationCheckpoint("command_break", "before", bpbynumber, stack)
    /\ line_pass' = NoPass
    /\ UNCHANGED <<watches, focus_files, focus_functions, source_lines, current_hash>>
    /\ CmdFrame

\* CommandHandler._watch with an argument
command_watch ==
    /\ dbg_pc = "paused"
    /\ \E expression \in WatchExprs : watches' = AddWatch(watches, expression)
    /\ UNCHANGED <<bpbynumber, line_pass, focus_files, focus_functions, source_lines,
                   current_hash>>
    /\ SaveOperationCheckpoint("command_watch", "before", bpbynumber, stack)
    /\ CmdFrame

\* CommandHandler._unwatch with an argument
command_unwatch ==
    /\ dbg_pc = "paused"
    /\ \E expression \in WatchExprs :
            watches' = SelectSeq(watches, LAMBDA e : e.expression # expression)
    /\ UNCHANGED <<bpbynumber, line_pass, focus_files, focus_functions, source_lines,
                   current_hash>>
    /\ SaveOperationCheckpoint("command_unwatch", "before", bpbynumber, stack)
    /\ CmdFrame

\* CommandHandler._focus with an argument: @FUNCTION or FILE
command_focus ==
    /\ dbg_pc = "paused"
    /\ \/ \E funcname \in FocusFunctionNames :
            /\ focus_functions' = focus_functions \cup {funcname}
            /\ UNCHANGED focus_files
       \/ \E filepath \in FocusFilePaths :
            /\ focus_files' = focus_files \cup {filepath}
            /\ UNCHANGED focus_functions
    /\ UNCHANGED <<bpbynumber, line_pass, watches, source_lines, current_hash>>
    /\ SaveOperationCheckpoint("command_focus", "before", bpbynumber, stack)
    /\ CmdFrame

\* CommandHandler._unfocus
command_unfocus ==
    /\ dbg_pc = "paused"
    /\ focus_files' = {}
    /\ focus_functions' = {}
    /\ UNCHANGED <<bpbynumber, line_pass, watches, source_lines, current_hash>>
    /\ SaveOperationCheckpoint("command_unfocus", "before", bpbynumber, stack)
    /\ CmdFrame

\* SourceProvider.replace_text_in_file with max_replacements=-1, on a file
\* whose lines each hold one statement: an error for an empty old_text or
\* one that is not in the file, else every occurrence is replaced.
ReplaceTextInFile(lines, old_text, new_text) ==
    IF old_text = "" \/ \A i \in 1..Len(lines) : lines[i] # old_text
    THEN lines
    ELSE [i \in 1..Len(lines) |-> IF lines[i] = old_text THEN new_text ELSE lines[i]]

\* ToolRegistry.execute("replace_text_in_file", ...) ->
\* ToolExecutor._replace_text_in_file
replace_text_in_file ==
    /\ dbg_pc = "paused"
    /\ \E filename \in EditFiles, old_text \in EditTexts, new_text \in EditTexts \ {""} :
         LET lines == ReplaceTextInFile(source_lines[filename], old_text, new_text)
         IN  /\ source_lines' = [source_lines EXCEPT ![filename] = lines]
             /\ current_hash' = [current_hash EXCEPT ![filename] = ScriptHash(lines)]
    /\ UNCHANGED saveVars
    /\ UNCHANGED <<bpbynumber, line_pass, watches, focus_files, focus_functions>>
    /\ CmdFrame

\* A run that breaks on entry, and the REPL of its first pause, with
\* auto-save on or off.
CmdInit ==
    /\ dbg_pc = "start"
    /\ runs = 0
    /\ initial_breakpoints = <<>>
    /\ break_on_entry = TRUE
    /\ stack = <<>>
    /\ next_frame_id = 1
    /\ target_phase = "run"
    /\ tracing = FALSE
    /\ stopframe = NoFrame
    /\ returnframe = NoFrame
    /\ stoplineno = 0
    /\ bpbynumber = <<>>
    /\ skip_first_stop = FALSE
    /\ break_on_exception = FALSE
    /\ focus_files = {}
    /\ focus_functions = {}
    /\ stop_reason = ""
    /\ quitting = FALSE
    /\ rerun_requested = FALSE
    /\ focus_reject = NoReject
    /\ resume_log = NoResume
    /\ line_pass = NoPass
    /\ ConvInitDefault
    /\ TruncInitDefault
    /\ LLMInitDefault
    /\ RegInitDefault
    /\ \E auto_save \in BOOLEAN : SessInit(auto_save)

CmdNext ==
    \/ SessionRunner_run
    \/ TargetLine
    \/ command_break
    \/ command_watch
    \/ command_unwatch
    \/ command_focus
    \/ command_unfocus
    \/ replace_text_in_file

SpecCmd == CmdInit /\ [][CmdNext]_vars

\* A step of a slash command that changes the breakpoint table, the watch
\* list or the focus filters, and the operation it is.
CommandMutates ==
    \/ Len(bpbynumber') # Len(bpbynumber)
    \/ GetWatchList(watches') # GetWatchList(watches)
    \/ focus_files' # focus_files
    \/ focus_functions' # focus_functions

CommandOperation ==
    IF Len(bpbynumber') # Len(bpbynumber) THEN "command_break"
    ELSE IF Len(watches') > Len(watches) THEN "command_watch"
    ELSE IF Len(watches') < Len(watches) THEN "command_unwatch"
    ELSE IF focus_files' = {} /\ focus_functions' = {} THEN "command_unfocus"
    ELSE "command_focus"

\* The step wrote one auto checkpoint, which holds the session as it was
\* before the step, under the reason of the operation's "before" stage.
OperationCheckpointed(operation) ==
    /\ mtime_clock' = mtime_clock + 1
    /\ \E f \in state_files' : f.id = mtime_clock' /\ f.prefix = "auto"
    /\ last_snapshot' = CaptureStateSnapshot(mtime_clock', "op:" \o operation \o ":before",
                                             bpbynumber, stack)

C22_ReplaceTextCheckpointsBeforeEdit ==
    [][auto_save_state /\ source_lines' # source_lines
            => OperationCheckpointed("replace_text_in_file")]_vars

\* The debugger with auto-save on (the default), in a run that breaks on
\* entry.
PauseInit ==
    /\ dbg_pc = "start"
    /\ runs = 0
    /\ initial_breakpoints = <<>>
    /\ break_on_entry = TRUE
    /\ stack = <<>>
    /\ next_frame_id = 1
    /\ target_phase = "run"
    /\ tracing = FALSE
    /\ stopframe = NoFrame
    /\ returnframe = NoFrame
    /\ stoplineno = 0
    /\ bpbynumber = <<>>
    /\ skip_first_stop = FALSE
    /\ break_on_exception \in BOOLEAN
    /\ focus_files = {}
    /\ focus_functions = {}
    /\ stop_reason = ""
    /\ quitting = FALSE
    /\ rerun_requested = FALSE
    /\ focus_reject = NoReject
    /\ resume_log = NoResume
    /\ line_pass = NoPass
    /\ ConvInitDefault
    /\ TruncInitDefault
    /\ LLMInitDefault
    /\ RegInitDefault
    /\ SessInit(TRUE)

PauseNext ==
    \/ SessionRunner_run
    \/ TargetCall
    \/ TargetLine
    \/ TargetReturn
    \/ TargetException
    \/ on_debugger_stop
    \/ SessionRunner_after_run

SpecPause == PauseInit /\ [][PauseNext]_vars

SkipInit ==
    /\ dbg_pc = "start"
    /\ runs = 0
    /\ initial_breakpoints = << <<"a.py", 1>> >>
    /\ break_on_entry = FALSE
    /\ stack = <<>>
    /\ next_frame_id = 1
    /\ target_phase = "run"
    /\ tracing = FALSE
    /\ stopframe = NoFrame
    /\ returnframe = NoFrame
    /\ stoplineno = 0
    /\ bpbynumber = <<>>
    /\ skip_first_stop = FALSE
    /\ break_on_exception \in BOOLEAN
    /\ focus_files \in {{}, {"a.py"}}
    /\ focus_functions = {}
    /\ stop_reason = ""
    /\ quitting = FALSE
    /\ rerun_requested = FALSE
    /\ focus_reject = NoReject
    /\ resume_log = NoResume
    /\ line_pass = NoPass
    /\ ConvInitDefault
    /\ TruncInitDefault
    /\ LLMInitDefault
    /\ RegInitDefault
    /\ SessInitDefault

SpecSkip == SkipInit /\ [][PauseNext]_vars

\* C30: the flag is set only while no line of the run has been run; the
\* first trace event of such a run is a candidate stop, which produces no
\* pause, clears the flag and continues; and with the flag clear, a line or
\* return stop pauses only in a frame the focus filter accepts and an
\* exception stop only with break-on-exception.
C30_SkipFirstStopOnlySkipsFirst ==
    [][/\ skip_first_stop' =>
            /\ dbg_pc' = "running"
            /\ Len(stack') = 1
            /\ stack'[1].line = 0
       /\ (skip_first_stop /\ dbg_pc = "running") =>
            /\ ~skip_first_stop'
            /\ dbg_pc' = "running"
            /\ stack'[1].line >= 1
            /\ <<stopframe', returnframe', stoplineno'>> = <<BotFrame, NoFrame, StopNever>>
       /\ (~skip_first_stop /\ dbg_pc = "running" /\ dbg_pc' = "paused") =>
            IF stop_reason' = "exception" THEN break_on_exception
            ELSE \/ (focus_files = {} /\ focus_functions = {})
                 \/ stack'[Len(stack')].file \in focus_files
                 \/ stack'[Len(stack')].func \in focus_functions
    ]_vars

\* The first line of a run with the flag set was run without a pause, and
\* a later line stop of the same run has paused.
C30_Witness ==
    /\ ~break_on_entry
    /\ ~skip_first_stop
    /\ dbg_pc = "paused"
    /\ stop_reason = "line"
    /\ runs = 1

(***************************************************************************)
(* LLMClient._execute_tool called on its own, as the tool loop and the     *)
(* tests call it: an executor is bound, and any tool is called with any    *)
(* arguments any number of times between two resets of the guard.  Here    *)
(* turn_calls counts the calls of every tool, per tool and argument dict.  *)
(***************************************************************************)
GuardTools == {"replace_text_in_file", "replace_file_contents", "get_call_stack"}
GuardCallKeys == {k \in CallKeys : k[1] \in GuardTools}

GuardFrame ==
    UNCHANGED <<convVars, truncVars, regVars, dbgVars, sessVars, llm_pc, llm_streaming,
                llm_rounds, tool_executor_bound, execution_action, pending_calls,
                tool_results, turn_outcome, prev_turn_blocked, streamVars>>

\* client._execute_tool(name, input_data)
execute_tool ==
    /\ turn_dispatched < MaxDirectCalls
    /\ \E name \in GuardTools, input_data \in ParsedArguments :
       \E outcome \in HandlerOutcomesOf(name, input_data) \cap LoopOutcomesOf(name) :
         LET r == ExecuteTool(name, input_data, outcome, write_call_signature_counts,
                              tool_executor_bound, reg_tools)
             key == <<name, DictOf(input_data)>>
         IN  /\ write_call_signature_counts' = r.counts
             /\ turn_calls' = [turn_calls EXCEPT ![key] = @ + 1]
             /\ turn_dispatched' = turn_dispatched + 1
             /\ last_dispatch' = [name |-> name,
                                  id |-> "",
                                  result |-> r.result,
                                  reached_registry |-> r.reached_registry,
                                  nth |-> turn_calls[key] + 1]
    /\ GuardFrame

\* client._reset_tool_call_guards()
reset_tool_call_guards ==
    /\ turn_dispatched > 0
    /\ write_call_signature_counts' = ResetToolCallGuards
    /\ turn_calls' = [k \in GuardCallKeys |-> 0]
    /\ turn_dispatched' = 0
    /\ last_dispatch' = NoDispatch
    /\ GuardFrame

GuardInit ==
    /\ ConvInitDefault
    /\ TruncInitDefault
    /\ RegInitDefault
    /\ DbgInitDefault
    /\ SessInitDefault
    /\ llm_pc = "idle"
    /\ llm_streaming = FALSE
    /\ llm_rounds = 0
    /\ write_call_signature_counts = ResetToolCallGuards
    /\ tool_executor_bound = TRUE
    /\ execution_action = "none"
    /\ pending_calls = <<>>
    /\ tool_results = <<>>
    /\ last_dispatch = NoDispatch
    /\ turn_calls = [k \in GuardCallKeys |-> 0]
    /\ turn_dispatched = 0
    /\ turn_outcome = NoOutcome
    /\ prev_turn_blocked = {}
    /\ tool_calls_accum = <<>>
    /\ finish_reason = "None"
    /\ last_fragment = NoFragment
    /\ turn_fragments = 0

GuardNext ==
    \/ execute_tool
    \/ reset_tool_call_guards

SpecGuard == GuardInit /\ [][GuardNext]_vars

\* C28: the loop guard withholds exactly the calls of a file-mutating tool
\* that repeat the same tool and arguments more than the threshold number of
\* times since the guard was reset: such a call is not handed to the
\* registry and comes back as the loop-guard error carrying the repeat
\* count; every other call, of any tool and however often repeated, is
\* handed to the registry.
C28_GuardWithholdsExactlyRepeatedWrites ==
    last_dispatch.name # "none" =>
        LET repeated == /\ last_dispatch.name \in WriteTools
                        /\ last_dispatch.nth > MaxIdenticalWriteCalls
        IN  /\ last_dispatch.reached_registry <=> ~repeated
            /\ (last_dispatch.result.detail = "Loop guard") <=> repeated
            /\ repeated =>
                   /\ last_dispatch.result.status = "returned"
                   /\ last_dispatch.result.payload = "error"
                   /\ last_dispatch.result.repeated_calls = last_dispatch.nth

\* A tool that does not write is executed at its fourth identical call,
\* after a write call was withheld since the same reset.
C28_Witness ==
    /\ last_dispatch.name \in GuardTools \ WriteTools
    /\ last_dispatch.nth > MaxIdenticalWriteCalls
    /\ last_dispatch.reached_registry
    /\ \E k \in GuardCallKeys :
         /\ k[1] \in WriteTools
         /\ turn_calls[k] > MaxIdenticalWriteCalls

(***************************************************************************)
(* send_message_streaming, chunk by chunk.  A chunk of the stream carries  *)
(* tool-call fragments or a finish reason.  A fragment names the index of  *)
(* its call and carries a piece of the id, of the name or of the argument  *)
(* text: the accumulation handles the three fields one after the other, so *)
(* a fragment with several fields acts as its one-field fragments in the   *)
(* order id, name, arguments.  Text deltas change nothing modelled here.   *)
(***************************************************************************)
NamePieces == {"replace_text_in_file", "replace_text", "_in_file"}
StreamIndexes == {0, 1}

Fragment(index, id, name, arguments) ==
    [index |-> index, id |-> id, name |-> name, arguments |-> arguments]

StreamFragments ==
    {Fragment(i, CallIds[n], "", <<>>) : i \in StreamIndexes, n \in 1..Len(CallIds)}
        \cup {Fragment(i, "", name, <<>>) : i \in StreamIndexes, name \in NamePieces}
        \cup {Fragment(i, "", "", piece) : i \in StreamIndexes, piece \in ArgumentPieces}

\* tool_calls_accum[idx] as a fragment for idx meets it: the entry, or the
\* entry the first fragment of idx opens.
AccumEntry(accum, tc) ==
    IF \E i \in 1..Len(accum) : accum[i].index = tc.index
    THEN accum[CHOOSE i \in 1..Len(accum) : accum[i].index = tc.index]
    ELSE Fragment(tc.index, tc.id, "", <<>>)

\* The body of "for tc in delta.tool_calls": tool_calls_accum is a dict keyed
\* by index, kept here in insertion order, which is the order of .values().
AccumulateFragment(accum, tc) ==
    LET e0 == AccumEntry(accum, tc)
        e1 == IF tc.id # "" THEN [e0 EXCEPT !.id = tc.id] ELSE e0
        e2 == IF tc.name # "" THEN [e1 EXCEPT !.name = tc.name] ELSE e1
        e3 == IF tc.arguments # <<>>
              THEN [e2 EXCEPT !.arguments = @ \o tc.arguments] ELSE e2
    IN  IF \E i \in 1..Len(accum) : accum[i].index = tc.index
        THEN [i \in 1..Len(accum) |-> IF accum[i].index = tc.index THEN e3 ELSE accum[i]]
        ELSE Append(accum, e3)

\* The accumulated calls executed whatever the finish reason.
ExecuteAccumulatedAlways(finish, accum) == accum # <<>>

\* if finish_reason == "tool_calls" and tool_calls_accum
ExecuteAccumulated(finish, accum) == finish = "tool_calls" /\ accum # <<>>

StreamFrame ==
    UNCHANGED <<max_messages, llm_streaming, tool_executor_bound, prev_turn_blocked,
                truncVars, regVars, dbgVars, sessVars>>

\* _build_messages and the streaming request of one round.
StreamOpens ==
    /\ llm_pc = "request"
    /\ llm_streaming
    /\ llm_rounds < MaxRoundsExplored
    /\ messages' = TrimMessages(messages, max_messages)
    /\ convLastOp' = "get"
    /\ llm_rounds' = llm_rounds + 1
    /\ llm_pc' = "stream"
    /\ tool_calls_accum' = <<>>
    /\ finish_reason' = "None"
    /\ last_fragment' = NoFragment
    /\ last_dispatch' = NoDispatch
    /\ UNCHANGED <<nAppended, write_call_signature_counts, execution_action, pending_calls,
                   tool_results, turn_calls, turn_dispatched, turn_outcome, turn_fragments>>
    /\ StreamFrame

\* A chunk with one tool-call fragment; its finish_reason is None.
StreamChunk ==
    /\ llm_pc = "stream"
    /\ turn_fragments < MaxFragments
    /\ \E tc \in StreamFragments :
         /\ tool_calls_accum' = AccumulateFragment(tool_calls_accum, tc)
         /\ last_fragment' = [index |-> tc.index, id |-> tc.id, name |-> tc.name,
                               arguments |-> tc.arguments,
                               before |-> AccumEntry(tool_calls_accum, tc)]
    /\ finish_reason' = "None"
    /\ turn_fragments' = turn_fragments + 1
    /\ UNCHANGED <<convVars, llm_pc, llm_rounds, write_call_signature_counts,
                   execution_action, pending_calls, tool_results, last_dispatch,
                   turn_calls, turn_dispatched, turn_outcome>>
    /\ StreamFrame

\* The chunk that carries the finish reason of the response.
StreamFinishChunk ==
    /\ llm_pc = "stream"
    /\ finish_reason = "None"
    /\ finish_reason' \in {"tool_calls", "stop"}
    /\ UNCHANGED <<convVars, llm_pc, llm_rounds, write_call_signature_counts,
                   execution_action, pending_calls, tool_results, last_dispatch,
                   turn_calls, turn_dispatched, turn_outcome, tool_calls_accum,
                   last_fragment, turn_fragments>>
    /\ StreamFrame

\* The stream is exhausted: the assistant message is recorded with the
\* accumulated calls, and the calls are processed or the turn returns.
StreamEnds ==
    /\ llm_pc = "stream"
    /\ messages' = AppendMessage(messages, "assistant",
                                 [i \in 1..Len(tool_calls_accum) |-> tool_calls_accum[i].id],
                                 "", nAppended + 1)
    /\ nAppended' = nAppended + 1
    /\ convLastOp' = "add"
    /\ tool_results' = <<>>
    /\ IF ExecuteAccumulated(finish_reason, tool_calls_accum)
       THEN /\ llm_pc' = "tools"
            /\ pending_calls' = [i \in 1..Len(tool_calls_accum) |->
                                    ToolCall(tool_calls_accum[i].id,
                                             tool_calls_accum[i].name,
                                             tool_calls_accum[i].arguments)]
            /\ turn_outcome' = turn_outcome
       ELSE /\ llm_pc' = "idle"
            /\ pending_calls' = <<>>
            /\ turn_outcome' = [kind |-> "text", what |-> "response"]
    /\ UNCHANGED <<max_messages, llm_rounds, write_call_signature_counts, execution_action,
                   last_dispatch, turn_calls, turn_dispatched, streamVars>>
    /\ StreamFrame

\* One pass of the loop of _process_accumulated_tool_calls.
ProcessAccumulatedToolCall ==
    /\ llm_pc = "tools"
    /\ pending_calls # <<>>
    /\ ProcessToolCall(Head(pending_calls))
    /\ UNCHANGED <<llm_rounds, streamVars>>
    /\ StreamFrame

StreamInit ==
    /\ ConvInitDefault
    /\ TruncInitDefault
    /\ RegInitDefault
    /\ DbgInitDefault
    /\ SessInitDefault
    /\ llm_pc = "idle"
    /\ llm_streaming = FALSE
    /\ llm_rounds = 0
    /\ write_call_signature_counts = ResetToolCallGuards
    /\ tool_executor_bound = TRUE
    /\ execution_action = "none"
    /\ pending_calls = <<>>
    /\ tool_results = <<>>
    /\ last_dispatch = NoDispatch
    /\ turn_calls = [k \in WriteCallKeys |-> 0]
    /\ turn_dispatched = 0
    /\ turn_outcome = NoOutcome
    /\ prev_turn_blocked = {}
    /\ tool_calls_accum = <<>>
    /\ finish_reason = "None"
    /\ last_fragment = NoFragment
    /\ turn_fragments = 0

StreamNext ==
    \/ send_message_streaming
    \/ StreamOpens
    \/ StreamChunk
    \/ StreamFinishChunk
    \/ StreamEnds
    \/ ProcessAccumulatedToolCall

SpecStream == StreamInit /\ [][StreamNext]_vars

\* C24: the fragments of one index are merged into one call: after a
\* fragment the call's name is the name so far followed by the fragment's
\* name piece, its argument text is the text so far followed by the
\* fragment's piece, and its id is the fragment's id if it carries one and
\* the id so far otherwise.
C24_FragmentsOfAnIndexConcatenate ==
    /\ \A i, j \in 1..Len(tool_calls_accum) :
           tool_calls_accum[i].index = tool_calls_accum[j].index => i = j
    /\ last_fragment.index # NoFragment.index =>
           LET merged == AccumEntry(tool_calls_accum, last_fragment)
               before == last_fragment.before
           IN  /\ merged.name = before.name \o last_fragment.name
               /\ merged.arguments = before.arguments \o last_fragment.arguments
               /\ merged.id = IF last_fragment.id # "" THEN last_fragment.id
                                                       ELSE before.id

\* C25: in streaming mode no tool runs while the stream of the round is
\* open; the accumulated calls are processed only after the stream has ended
\* with the finish reason "tool_calls", all of them and as accumulated; and
\* each goes through _execute_tool, so a write call repeated beyond the
\* threshold is withheld and any other call is handed to the registry.
C25_StreamedCallsRunAfterStreamEnd ==
    [][/\ llm_pc = "stream" =>
            /\ turn_dispatched' = turn_dispatched
            /\ write_call_signature_counts' = write_call_signature_counts
            /\ last_dispatch' = NoDispatch
            /\ execution_action' = execution_action
       /\ (llm_pc = "stream" /\ llm_pc' = "tools") =>
            /\ finish_reason = "tool_calls"
            /\ Len(pending_calls') = Len(tool_calls_accum)
            /\ \A i \in 1..Len(tool_calls_accum) :
                 /\ pending_calls'[i].id = tool_calls_accum[i].id
                 /\ pending_calls'[i].name = tool_calls_accum[i].name
                 /\ pending_calls'[i].arguments = tool_calls_accum[i].arguments
       /\ (llm_pc = "stream" /\ llm_pc' = "idle") =>
            (finish_reason # "tool_calls" \/ tool_calls_accum = <<>>)
       /\ turn_dispatched' # turn_dispatched =>
            LET tc == Head(pending_calls)
                repeated == /\ tc.name \in WriteTools
                            /\ last_dispatch'.nth > MaxIdenticalWriteCalls
            IN  /\ llm_pc = "tools"
                /\ last_dispatch'.id = tc.id
                /\ last_dispatch'.name = tc.name
                /\ last_dispatch'.reached_registry <=> ~repeated
                /\ (last_dispatch'.result.detail = "Loop guard") <=> repeated
      ]_vars

\* A streamed write call is withheld by the loop guard: it is the third
\* identical call of the turn, each processed after its stream had ended.
C25_Witness ==
    /\ llm_streaming
    /\ finish_reason = "tool_calls"
    /\ last_dispatch.name \in WriteTools
    /\ last_dispatch.nth = MaxIdenticalWriteCalls + 1
    /\ ~last_dispatch.reached_registry

(***************************************************************************)
(* BreakpointManager called on its own, before the first run (no current   *)
(* frame) or at a pause in the script's first line.  The files a.py and    *)
(* b.py exist with the lines 1..MaxLine; linecache.getline gives "" for    *)
(* every other file or line.  A breakpoint spec is its text cut into the   *)
(* pieces add_from_spec looks for: " if ", ":" and what stands between.    *)
(***************************************************************************)
NoFile == "None"
BpFileArgs == {NoFile, "a.py", "missing.py"}
BpLineArgs == (0 - 1)..(MaxLine + 1)
BpNumberArgs == (0 - MaxBreakpoints - 2)..(MaxBreakpoints + 1)

LineExists(file, line) == file \in Files /\ line \in Lines

\* int(text): the number, or ValueError (-1 here: a spec has no sign)
Digits == <<"1", "2", "3", "4", "5", "6", "7", "8", "9">>
IntOf(text) ==
    IF \E d \in 1..Len(Digits) : Digits[d] = text
    THEN CHOOSE d \in 1..Len(Digits) : Digits[d] = text
    ELSE 0 - 1

FileLineSpecs == {<<f, ":", l>> : f \in {"a.py"}, l \in {"1", "2"}}
MissingSpecs == {<<"missing.py", ":", "1">>, <<"a.py", ":", "9">>}
FunctionSpecs == {<<"fa">>, <<"fa", " if ", "c">>, <<"fa", " if ", "d", ":", "1">>}
BpSpecs ==
    FileLineSpecs \cup {sp \o <<" if ", "c">> : sp \in FileLineSpecs}
        \cup MissingSpecs \cup FunctionSpecs \cup {<<"a.py", ":", "x">>}

BpOk == [status |-> "ok", error |-> ""]
BpError(text) == [status |-> "error", error |-> text]

\* Bdb.set_break without the look at the line.
SetBreakUnchecked(table, file, line) ==
    [err |-> "", table |-> Append(table, Breakpoint(file, line))]

\* Bdb.set_break: the error text or None ("" here), and the table after it.
SetBreak(table, file, line) ==
    IF ~LineExists(file, line)
    THEN [err |-> "does not exist", table |-> table]
    ELSE [err |-> "", table |-> Append(table, Breakpoint(file, line))]

\* BreakpointManager.set_breakpoint
SetBreakpoint(table, stk, filename, lineno) ==
    IF filename = NoFile /\ stk = <<>>
    THEN [result |-> BpError("No filename specified and no active frame"), table |-> table]
    ELSE LET file == IF filename = NoFile THEN stk[Len(stk)].file ELSE filename
             r == SetBreak(table, file, lineno)
         IN  IF r.err # ""
             THEN [result |-> BpError(r.err), table |-> r.table]
             ELSE [result |-> BpOk, table |-> r.table]

\* text.split(" if ", 1)[0]
RECURSIVE BeforeIf(_)
BeforeIf(spec) ==
    IF spec = <<>> \/ Head(spec) = " if " THEN <<>>
    ELSE <<Head(spec)>> \o BeforeIf(Tail(spec))

\* the pieces joined into one text again
RECURSIVE Joined(_)
Joined(pieces) == IF pieces = <<>> THEN "" ELSE Head(pieces) \o Joined(Tail(pieces))

\* BreakpointManager.add_from_spec
AddFromSpec(table, stk, spec) ==
    LET head == BeforeIf(spec)
        colons == {i \in 1..Len(head) : head[i] = ":"}
    IN  IF colons # {}
        THEN LET last == CHOOSE i \in colons : \A j \in colons : j <= i
                 filename == Joined(SubSeq(head, 1, last - 1))
                 lineno == IntOf(Joined(SubSeq(head, last + 1, Len(head))))
             IN  IF lineno < 0
                 THEN [result |-> BpError("Invalid line number"), table |-> table]
                 ELSE SetBreakpoint(table, stk, filename, lineno)
        ELSE [result |-> BpError("Function breakpoints not yet supported"),
              table |-> table]

\* bdb.Breakpoint.bpbynumber[n]: the list starts with None at index 0, a
\* negative index counts from the end.
BpByNumber(table, n) ==
    LET pos == IF n >= 0 THEN n ELSE Len(table) + 1 + n
    IN  IF pos < 0 \/ pos > Len(table) THEN [found |-> "IndexError"]
        ELSE IF pos = 0 \/ ~table[pos].live THEN [found |-> "None"]
        ELSE [found |-> "bp", bp |-> table[pos]]

\* Bdb.clear_break
ClearBreakChecked(table, file, line) ==
    IF <<file, line>> \notin Breaks(table)
    THEN [err |-> "There is no breakpoint", table |-> table]
    ELSE [err |-> "", table |-> ClearBreak(table, file, line)]

\* BreakpointManager.remove_breakpoint with a number
RemoveBreakpointByNumber(table, bp_number) ==
    LET entry == BpByNumber(table, bp_number)
    IN  IF entry.found = "IndexError"
        THEN [result |-> BpError("not found"), table |-> table]
        ELSE IF entry.found = "None"
        THEN [result |-> BpError("already deleted"), table |-> table]
        ELSE LET r == ClearBreakChecked(table, entry.bp.file, entry.bp.line)
             IN  IF r.err # "" THEN [result |-> BpError(r.err), table |-> r.table]
                 ELSE [result |-> BpOk, table |-> r.table]

\* BreakpointManager.remove_breakpoint with bp_number None
RemoveBreakpointAt(table, filename, lineno) ==
    IF filename # NoFile /\ lineno # 0
    THEN LET r == ClearBreakChecked(table, filename, lineno)
         IN  IF r.err # "" THEN [result |-> BpError(r.err), table |-> r.table]
             ELSE [result |-> BpOk, table |-> r.table]
    ELSE [result |-> BpError("Specify bp_number or filename+lineno"), table |-> table]

BpFrame ==
    UNCHANGED <<convVars, truncVars, llmVars, regVars, storeVars, watches, source_lines, restore_log, perfVars,
                codecVars, runnerVars, ckptVars, dbg_pc, runs,
                initial_breakpoints, break_on_entry, stack, next_frame_id, target_phase,
                tracing, stopVars, skip_first_stop, break_on_exception, focus_files,
                focus_functions, stop_reason, quitting, rerun_requested, focus_reject,
                resume_log, line_pass, restored_summary, load_request, replVars, injVars,
                repl_turn, rt_snapshot>>

BpReturn(op, args, r) ==
    /\ Len(r.table) <= MaxBreakpoints
    /\ bpbynumber' = r.table
    /\ bp_result' = [op |-> op, args |-> args, status |-> r.result.status,
                     error |-> r.result.error, before |-> bpbynumber]
    /\ BpFrame

bp_set_breakpoint ==
    \E filename \in BpFileArgs, lineno \in BpLineArgs :
        BpReturn("set_breakpoint", [filename |-> filename, lineno |-> lineno],
                 SetBreakpoint(bpbynumber, stack, filename, lineno))

bp_add_from_spec ==
    \E spec \in BpSpecs :
        BpReturn("add_from_spec", [spec |-> spec], AddFromSpec(bpbynumber, stack, spec))

bp_remove_breakpoint ==
    \/ \E bp_number \in BpNumberArgs :
          BpReturn("remove_breakpoint", [by |-> "number", bp_number |-> bp_number],
                   RemoveBreakpointByNumber(bpbynumber, bp_number))
    \/ \E filename \in BpFileArgs, lineno \in BpLineArgs :
          BpReturn("remove_breakpoint",
                   [by |-> "location", filename |-> filename, lineno |-> lineno],
                   RemoveBreakpointAt(bpbynumber, filename, lineno))

BpInit ==
    /\ \/ dbg_pc = "start" /\ runs = 0 /\ stack = <<>> /\ next_frame_id = 1
              /\ tracing = FALSE /\ stop_reason = ""
       \/ dbg_pc = "paused" /\ runs = 1
              /\ stack = <<Frame(1, Script, ModuleName, 1, TRUE)>>
              /\ next_frame_id = 2 /\ tracing = TRUE /\ stop_reason = "line"
    /\ initial_breakpoints = <<>>
    /\ break_on_entry = TRUE
    /\ target_phase = "run"
    /\ stopframe = NoFrame
    /\ returnframe = NoFrame
    /\ stoplineno = 0
    /\ bpbynumber = <<>>
    /\ skip_first_stop = FALSE
    /\ break_on_exception = FALSE
    /\ focus_files = {}
    /\ focus_functions = {}
    /\ quitting = FALSE
    /\ rerun_requested = FALSE
    /\ focus_reject = NoReject
    /\ resume_log = NoResume
    /\ line_pass = NoPass
    /\ ConvInitDefault
    /\ TruncInitDefault
    /\ LLMInitDefault
    /\ RegInitDefault
    /\ SessInitDefault

BpNext ==
    \/ bp_set_breakpoint
    \/ bp_add_from_spec
    \/ bp_remove_breakpoint

SpecBp == BpInit /\ [][BpNext]_vars

BpRejected ==
    /\ bp_result.status = "error"
    /\ bp_result.error # ""
    /\ bpbynumber = bp_result.before

\* C31: set_breakpoint for a file or line that does not exist, and
\* add_from_spec for such a place or for a spec that names only a function,
\* return an error result (the function spec: "not yet supported") and
\* leave the breakpoint table as it was.
C31_BadBreakpointIsAnErrorResult ==
    /\ (/\ bp_result.status # "none"
        /\ bp_result.op = "set_breakpoint"
        /\ bp_result.args.filename # NoFile
        /\ ~LineExists(bp_result.args.filename, bp_result.args.lineno)) => BpRejected
    /\ (/\ bp_result.status # "none"
        /\ bp_result.op = "add_from_spec"
        /\ bp_result.args.spec \in MissingSpecs \cup FunctionSpecs) =>
            /\ BpRejected
            /\ bp_result.args.spec \in FunctionSpecs =>
                   bp_result.error = "Function breakpoints not yet supported"

\* A function-only spec was refused while the table holds a breakpoint.
C31_Witness ==
    /\ bp_result.status = "error"
    /\ bp_result.op = "add_from_spec"
    /\ bp_result.args.spec \in FunctionSpecs
    /\ bpbynumber # <<>>

\* C32: remove_breakpoint with a number or a file and line that identifies
\* no existing breakpoint returns an error and removes nothing.
C32_RemovingNothingIsAnError ==
    (bp_result.status # "none" /\ bp_result.op = "remove_breakpoint") =>
        LET before == bp_result.before
            a == bp_result.args
            identified ==
                IF a.by = "number"
                THEN a.bp_number \in 1..Len(before) /\ before[a.bp_number].live
                ELSE <<a.filename, a.lineno>> \in Breaks(before)
        IN  ~identified => BpRejected

(***************************************************************************)
(* DebugSession.load_state over the StateStore: the session is paused with *)
(* breakpoints, watches, focus entries and a restored summary of its own,  *)
(* the state directory holds files of which some do not parse, and one     *)
(* load is made with any selector.  A file that parses holds any of a few  *)
(* debugger states and conversation summaries.                             *)
(***************************************************************************)
Summaries == {"", "s1"}
LoadableFiles ==
    {StateFile(1, "manual", "n1", Script, "m1", "h1"),
     [StateFile(2, "manual", "n1", Script, "m1", "h1") EXCEPT !.readable = FALSE],
     [StateFile(3, "auto", NoName, Script, "m1", "h1") EXCEPT !.readable = FALSE]}
LoadableDebuggerStates ==
    {d \in StoredDebuggerStates : d.breakpoints = <<>> /\ Len(d.watches) <= 1}

session_load_state ==
    /\ load_request = NoRequest
    /\ \E selector \in Selectors, d \in LoadableDebuggerStates, summary \in Summaries :
         LET loaded == StoreLoad(state_files, selector, Script, config_model,
                                 current_hash[Script])
             chosen == SelectedFile(state_files, selector, Script)
         IN  /\ LoadState(IF loaded.status = "error" THEN LoadError
                          ELSE Loaded(d, EmptyPerf, loaded.code_drift))
             \* if conv_summary: self._llm.set_restored_summary(conv_summary)
             /\ restored_summary' = IF loaded.status = "ok" /\ summary # ""
                                    THEN summary ELSE restored_summary
             /\ load_request' = [status |-> loaded.status, selector |-> selector,
                                 unparsable |-> \E f \in chosen : ~f.readable]
    /\ UNCHANGED <<bp_result, replVars, injVars, repl_turn, rt_snapshot>>

SessionLoadInit ==
    /\ \E files \in SUBSET LoadableFiles, summary \in {NoSummary, "s0"} :
         RestoreInitWith(files, summary)
    /\ Len(bpbynumber) <= 1
    /\ Len(watches) <= 1
    /\ source_lines = [f \in Files |-> [l \in Lines |-> "s"]]

SpecSessionLoad == SessionLoadInit /\ [][session_load_state]_vars

\* C33: a load_state whose state file does not parse returns an error
\* result, and the session's breakpoints, watches, focus filters, perf
\* checkpoints, last comparison and restored conversation summary stay as
\* they were.
C33_UnparsableStateLeavesSession ==
    [][(load_request' # NoRequest /\ load_request'.unparsable) =>
            /\ load_request'.status = "error"
            /\ restore_log'.status = "error"
            /\ UNCHANGED <<bpbynumber, watches, focus_files, focus_functions,
                           perf_checkpoints, last_perf_comparison, restored_summary>>
      ]_vars

\* The file named by the selector exists and does not parse, and the session
\* that asked for it holds a breakpoint, a watch and a restored summary.
C33_Witness ==
    /\ load_request # NoRequest
    /\ load_request.unparsable
    /\ restore_log.status = "error"
    /\ bpbynumber # <<>>
    /\ watches # <<>>
    /\ restored_summary = "s0"

(***************************************************************************)
(* The interactive loops of DebugSession: enter_pre_run_repl, _repl_loop   *)
(* (a live pause) and enter_post_run_repl.  Each loop reads a line with    *)
(* InputHandler.read_input and acts on what it got.  The user answers a    *)
(* prompt with an interrupt (Ctrl-C), an end of file (Ctrl-D), an empty    *)
(* line, one of the bare words the loops know, or other text.              *)
(***************************************************************************)
MaxKeys == 3           \* prompts answered in one loop
ReplPhases == {"pre_run", "pause", "post_run"}
ReplKeys == {"ctrl_c", "ctrl_d", "empty", "quit", "rerun", "run", "hello"}
NoLine == "None"

\* InputHandler.read_input: prompt() raises KeyboardInterrupt on Ctrl-C and
\* EOFError on Ctrl-D; read_input catches both and returns "" and None.
ReadInput(key) ==
    IF key = "ctrl_c" THEN ""
    ELSE IF key = "ctrl_d" THEN NoLine
    ELSE IF key = "empty" THEN ""
    ELSE key

\* What is left of the loop body once read_input has returned: "prompt" if
\* the loop goes round again, else the action the loop ends with.  The
\* except KeyboardInterrupt around read_input is never entered, as
\* read_input does not raise it.
ReplLoopBody(phase, isatty, user_input) ==
    IF user_input = NoLine THEN (IF ~isatty THEN "quit" ELSE "prompt")
    ELSE IF user_input = "" THEN "prompt"
    ELSE IF user_input = "quit" THEN "quit"
    ELSE IF phase = "pre_run" /\ user_input = "run" THEN "run"
    ELSE IF phase # "pre_run" /\ user_input = "rerun" THEN "rerun"
    ELSE "prompt"    \* a model turn that asks for no execution action

ReplFrame ==
    UNCHANGED <<convVars, truncVars, llmVars, regVars, dbgVars, storeVars, watches,
                source_lines, restore_log, perfVars, codecVars, runnerVars, ckptVars,
                bp_result, restored_summary, load_request, injVars, repl_turn, rt_snapshot>>

ReplLoop(phase) ==
    \/ /\ repl_pc = "none"
       /\ repl_phase' = phase
       /\ repl_pc' = "prompt"
       /\ \E isatty \in BOOLEAN : stdin_isatty' = isatty
       /\ UNCHANGED repl_keys
       /\ ReplFrame
    \/ /\ repl_pc = "prompt"
       /\ repl_phase = phase
       /\ Len(repl_keys) < MaxKeys
       /\ \E key \in ReplKeys :
            /\ repl_keys' = Append(repl_keys, key)
            /\ repl_pc' = ReplLoopBody(phase, stdin_isatty, ReadInput(key))
       /\ UNCHANGED <<repl_phase, stdin_isatty>>
       /\ ReplFrame

enter_pre_run_repl == ReplLoop("pre_run")
repl_loop == ReplLoop("pause")
enter_post_run_repl == ReplLoop("post_run")

ReplNext ==
    \/ enter_pre_run_repl
    \/ repl_loop
    \/ enter_post_run_repl

SpecRepl == BpInit /\ [][ReplNext]_vars

\* C34: in the pre-run, pause and post-run loops alike, an interrupt that
\* does not follow another interrupt only cancels the input line and the
\* loop prompts again, and an interrupt that follows another interrupt
\* quits the session.
C34_TwoInterruptsQuit ==
    LET n == Len(repl_keys)
    IN  (n >= 1 /\ repl_keys[n] = "ctrl_c") =>
            IF n >= 2 /\ repl_keys[n - 1] = "ctrl_c"
            THEN repl_pc = "quit"
            ELSE repl_pc = "prompt"

(***************************************************************************)
(* Source injection: DebuggerCore._inject_runtime_breaks.  A text is a     *)
(* sequence of characters; "B" stands for the injected call                *)
(* __import__("athena").breakpoint()  # athena:injected-break.             *)
(***************************************************************************)
MaxSourceLines == 2    \* lines of the source text
MaxRequested == 2      \* length of the list of requested line numbers
Newline == "\n"
Whitespace == {" ", Newline}    \* the characters \s matches, of those used here
InjectedCall == <<"B", Newline>>
SourceLineSet == {<<"x", Newline>>, <<" ", "x", Newline>>, <<Newline>>, <<" ", Newline>>}
LastLineSet == SourceLineSet \cup {<<"x">>, <<" ", "x">>}

RECURSIVE JoinLines(_)
\* "".join(lines)
JoinLines(lines) ==
    IF lines = <<>> THEN <<>> ELSE Head(lines) \o JoinLines(Tail(lines))

RECURSIVE SplitAcc(_, _, _)
SplitAcc(rest, cur, done) ==
    IF rest = <<>> THEN (IF cur = <<>> THEN done ELSE Append(done, cur))
    ELSE IF Head(rest) = Newline
         THEN SplitAcc(Tail(rest), <<>>, Append(done, Append(cur, Newline)))
         ELSE SplitAcc(Tail(rest), Append(cur, Head(rest)), done)

\* source.splitlines(keepends=True)
SplitLines(text) == SplitAcc(text, <<>>, <<>>)

RECURSIVE LeadingWhitespace(_)
\* re.match(r"\s*", target).group(0)
LeadingWhitespace(target) ==
    IF target # <<>> /\ Head(target) \in Whitespace
    THEN <<Head(target)>> \o LeadingWhitespace(Tail(target))
    ELSE <<>>

RECURSIVE SortedReverse(_)
\* sorted(set(break_lines), reverse=True)
SortedReverse(S) ==
    IF S = {} THEN <<>>
    ELSE LET m == CHOOSE x \in S : \A y \in S : y <= x
         IN  <<m>> \o SortedReverse(S \ {m})

Insert(lines, i, x) == SubSeq(lines, 1, i - 1) \o <<x>> \o SubSeq(lines, i, Len(lines))

RECURSIVE InjectEach(_, _)
InjectEach(lines, todo) ==
    IF todo = <<>> THEN lines
    ELSE LET line_no == Head(todo)
         IN  IF line_no < 1 \/ line_no > Len(lines)
             THEN InjectEach(lines, Tail(todo))
             ELSE LET target == lines[line_no]
                      indent == LeadingWhitespace(target)
                      injection == indent \o InjectedCall
                  IN  InjectEach(Insert(lines, line_no, injection), Tail(todo))

InjectRuntimeBreaks(source, break_lines) ==
    LET lines == SplitLines(source)
    IN  IF lines = <<>> THEN source
        ELSE JoinLines(InjectEach(lines,
                 SortedReverse({break_lines[i] : i \in DOMAIN break_lines})))

Sources ==
    {JoinLines(ls) : ls \in UNION {[1..n -> SourceLineSet] : n \in 0..MaxSourceLines}}
    \cup {JoinLines(ls \o <<l>>) :
            ls \in UNION {[1..n -> SourceLineSet] : n \in 0..(MaxSourceLines - 1)},
            l \in LastLineSet}
RequestedLists == UNION {[1..n -> 0..(MaxSourceLines + 1)] : n \in 0..MaxRequested}

InjectFrame ==
    UNCHANGED <<convVars, truncVars, llmVars, regVars, dbgVars, storeVars, watches,
                source_lines, restore_log, perfVars, codecVars, runnerVars, ckptVars,
                bp_result, restored_summary, load_request, replVars, repl_turn,
                rt_snapshot>>

inject_runtime_breaks ==
    /\ inj_out = NoText
    /\ \E source \in Sources, break_lines \in RequestedLists :
         /\ inj_source' = source
         /\ inj_break_lines' = break_lines
         /\ inj_out' = InjectRuntimeBreaks(source, break_lines)
    /\ UNCHANGED <<inj_specs, inj_resolved>>
    /\ InjectFrame

SpecInject == BpInit /\ [][inject_runtime_breaks]_vars

\* A line's leading whitespace: what stands before its first character that
\* is neither a blank nor the line's terminator.
LineIndent(line) == LeadingWhitespace(SelectSeq(line, LAMBDA c : c # Newline))

RECURSIVE WithCallsBefore(_, _, _)
\* The lines from the i-th on, each requested one with a call before it.
WithCallsBefore(lines, requested, i) ==
    IF i > Len(lines) THEN <<>>
    ELSE (IF i \in requested THEN <<LineIndent(lines[i]) \o InjectedCall>> ELSE <<>>)
         \o <<lines[i]>> \o WithCallsBefore(lines, requested, i + 1)

\* C35: the injected text is the source's lines, unchanged and in order,
\* with one call right before each distinct requested line that exists,
\* indented as that line is; requested lines outside the source add nothing.
C35_OneCallBeforeEachRequestedLine ==
    inj_out # NoText =>
        SplitLines(inj_out) =
            WithCallsBefore(SplitLines(inj_source),
                            {inj_break_lines[i] : i \in DOMAIN inj_break_lines}, 1)

(***************************************************************************)
(* ScriptRunner._resolve_injected_break_lines.  An --inject-break spec is  *)
(* a sequence of pieces: the components of a path, ":" and the line part.  *)
(* A path is the sequence of its components, "/" first if it is absolute.  *)
(***************************************************************************)
MaxSpecs == 2          \* --inject-break options on the command line
Cwd == <<"/", "w">>
EntryScript == <<"a.py">>
InjectFiles == {<<"a.py">>, <<"/", "w", "a.py">>, <<"b.py">>, <<"sub", "a.py">>}
InjectLineParts == {"0", "2", "x"}
InjectSpecs ==
    {f \o <<":", l>> : f \in InjectFiles, l \in InjectLineParts} \cup {<<"a.py">>}
InjectSpecLists == UNION {[1..n -> InjectSpecs] : n \in 0..MaxSpecs}

\* os.path.abspath
Abspath(path) == IF path # <<>> /\ Head(path) = "/" THEN path ELSE Cwd \o path
\* os.path.basename
Basename(path) == path[Len(path)]

\* int(line_part): the number, or ValueError
ParseLine(text) ==
    IF text = "0" THEN [ok |-> TRUE, n |-> 0]
    ELSE IF IntOf(text) >= 0 THEN [ok |-> TRUE, n |-> IntOf(text)]
    ELSE [ok |-> FALSE, n |-> 0]

HasColon(spec) == \E i \in DOMAIN spec : spec[i] = ":"
LastColon(spec) ==
    CHOOSE i \in DOMAIN spec : spec[i] = ":" /\ \A j \in DOMAIN spec : spec[j] = ":" => j <= i
\* spec.rsplit(":", 1)
FilePart(spec) == SubSeq(spec, 1, LastColon(spec) - 1)
LinePart(spec) == Joined(SubSeq(spec, LastColon(spec) + 1, Len(spec)))

RECURSIVE SortedUp(_)
\* sorted(set(lines))
SortedUp(S) ==
    IF S = {} THEN <<>>
    ELSE LET m == CHOOSE x \in S : \A y \in S : x <= y
         IN  <<m>> \o SortedUp(S \ {m})

\* One pass of the loop: the warning printed for the spec, "" if it is taken.
ResolveOne(script_path, spec) ==
    IF ~HasColon(spec) THEN "Invalid --inject-break spec (expected FILE:LINE)"
    ELSE LET lineno == ParseLine(LinePart(spec))
             script_abs == Abspath(script_path)
             target_abs == Abspath(FilePart(spec))
         IN  IF ~lineno.ok THEN "Invalid --inject-break line number"
             ELSE IF target_abs # script_abs /\ Basename(target_abs) # Basename(script_abs)
             THEN "--inject-break currently supports only the entry script"
             ELSE IF lineno.n < 1 THEN "--inject-break line must be >= 1"
             ELSE ""

ResolveInjectedBreakLines(script_path, specs) ==
    LET taken == {i \in DOMAIN specs : ResolveOne(script_path, specs[i]) = ""}
    IN  [status |-> "ok",
         lines |-> SortedUp({ParseLine(LinePart(specs[i])).n : i \in taken}),
         warnings |-> [i \in DOMAIN specs |-> ResolveOne(script_path, specs[i])]]

resolve_injected_break_lines ==
    /\ inj_resolved = NoResult
    /\ \E specs \in InjectSpecLists :
         /\ inj_specs' = specs
         /\ inj_resolved' = ResolveInjectedBreakLines(EntryScript, specs)
    /\ UNCHANGED <<inj_source, inj_break_lines, inj_out>>
    /\ InjectFrame

SpecResolve == BpInit /\ [][resolve_injected_break_lines]_vars

TargetsEntryScript(spec) ==
    HasColon(spec) /\ Abspath(FilePart(spec)) = Abspath(EntryScript)

\* C36: every spec that names a file other than the entry script gets a
\* warning, and every line handed to the run comes from a spec that names
\* the entry script.
C36_OtherFilesAreRejected ==
    inj_resolved # NoResult =>
        /\ \A i \in DOMAIN inj_specs :
              ~TargetsEntryScript(inj_specs[i]) => inj_resolved.warnings[i] # ""
        /\ \A k \in DOMAIN inj_resolved.lines :
              \E i \in DOMAIN inj_specs :
                  /\ TargetsEntryScript(inj_specs[i])
                  /\ ParseLine(LinePart(inj_specs[i])) = [ok |-> TRUE, n |-> inj_resolved.lines[k]]

(***************************************************************************)
(* The shape of the history a completed turn leaves.                       *)
(***************************************************************************)
\* The tool entries that follow entry i up to the next entry of another role.
ToolRunAfter(msgs, i) ==
    {j \in (i + 1)..Len(msgs) :
        \A k \in (i + 1)..j : msgs[k].role = "tool"}

\* C37: once a turn has returned its text, in send_message and in
\* send_message_streaming, every assistant entry of the history that carries
\* tool calls is followed, before the next assistant or user entry, by
\* exactly one tool entry per call, with the call's id.
C37_EveryToolCallIsAnswered ==
    (llm_pc = "idle" /\ turn_outcome.kind = "text") =>
        \A i \in DOMAIN messages :
            (messages[i].role = "assistant" /\ messages[i].calls # <<>>) =>
                LET run == ToolRunAfter(messages, i)
                    calls == messages[i].calls
                IN  /\ Cardinality(run) = Len(calls)
                    /\ \A c \in DOMAIN calls :
                          Cardinality({j \in run : messages[j].call_id = calls[c]}) = 1

(***************************************************************************)
(* Quit, over the runs of the runner.                                      *)
(***************************************************************************)
\* C39: once the user has chosen quit (the session is quitting), the
\* session is at no pause and the runner is not about to run, nor running,
\* the target again, whatever was asked for before the quit.
C39_QuitIsTerminal ==
    quitting => dbg_pc \in {"ended", "done"}

(***************************************************************************)
(* A model turn inside _repl_loop: send_message_streaming runs the tool    *)
(* calls of the turn, whose handlers may set the executor's execution      *)
(* action, and ends with the model's text or with an exception of the      *)
(* request; the loop then asks the executor for the action.                *)
(***************************************************************************)
MaxTurns == 3          \* model turns at one pause
MaxTurnCalls == 2      \* tool calls of one turn
TurnTools == {"step_into", "step_over", "continue_execution", "inspect_variable"}
TurnEndings == {"text", "api_error"}

\* ToolExecutor._step_into, _step_over, _continue_execution: the handler
\* sets self._execution_action; other handlers leave it.
HandlerAction(name, action) ==
    CASE name = "step_into" -> "step"
      [] name = "step_over" -> "next"
      [] name = "continue_execution" -> "continue"
      [] OTHER -> action

RECURSIVE AfterToolCalls(_, _)
\* The executor's action after the calls of a turn; between two rounds
\* send_message_streaming reads the action and puts it back.
AfterToolCalls(action, calls) ==
    IF calls = <<>> THEN action
    ELSE AfterToolCalls(HandlerAction(Head(calls), action), Tail(calls))

\* The "Send to LLM" part of the loop body: after a turn that returned,
\* get_execution_action reads and clears the executor's action and the loop
\* ends with it if there is one; an exception of the turn is reported and
\* the loop prompts again.
repl_llm_turn ==
    /\ repl_pc = "prompt"
    /\ repl_phase = "pause"
    /\ repl_turn.n < MaxTurns
    /\ \E calls \in SeqsUpTo(TurnTools, MaxTurnCalls), ending \in TurnEndings :
         LET after == AfterToolCalls(execution_action, calls)
             action == IF ending = "text" THEN after ELSE "none"
         IN  /\ execution_action' = IF ending = "text" THEN "none" ELSE after
             /\ repl_pc' = IF action # "none" THEN action ELSE "prompt"
             /\ repl_turn' = [n |-> repl_turn.n + 1,
                              requested |-> AfterToolCalls("none", calls),
                              ending |-> ending,
                              resumed |-> action]
    /\ UNCHANGED <<llm_pc, llm_streaming, llm_rounds, write_call_signature_counts,
                   tool_executor_bound, pending_calls, tool_results, last_dispatch,
                   turn_calls, turn_dispatched, turn_outcome, prev_turn_blocked,
                   streamVars>>
    /\ UNCHANGED <<convVars, truncVars, regVars, dbgVars, storeVars, watches,
                   source_lines, restore_log, perfVars, codecVars, runnerVars, ckptVars,
                   bp_result, restored_summary, load_request, injVars, rt_snapshot,
                   repl_phase, repl_keys, stdin_isatty>>

TurnNext ==
    \/ repl_loop
    \/ repl_llm_turn

SpecTurn == BpInit /\ [][TurnNext]_vars

\* C38: the pause loop ends with an execution action after a model turn
\* only if a tool call of that turn asked for one.
C38_ResumeOnlyOnThisTurnsAction ==
    (repl_turn.n > 0 /\ repl_turn.resumed # "none") => repl_turn.requested # "none"

(***************************************************************************)
(* A snapshot of the breakpoint table and its restore, without code drift. *)
(* The table holds breakpoints with every attribute bdb.Breakpoint has.    *)
(***************************************************************************)
NoCondition == "None"
Conditions == {NoCondition, "c"}

\* bdb.Breakpoint(file, line, temporary, cond)
BreakpointWith(file, line, temporary, cond) ==
    [file |-> file, line |-> line, live |-> TRUE, enabled |-> TRUE, hits |-> 0,
     ignore |-> 0, temporary |-> temporary, cond |-> cond]

\* BreakpointManager.list_breakpoints, without the numbers
ListBreakpoints(table) ==
    LET live == SelectSeq(table, LAMBDA bp : bp.live)
    IN  [i \in 1..Len(live) |->
            [file |-> live[i].file, line |-> live[i].line, enabled |-> live[i].enabled,
             temporary |-> live[i].temporary, condition |-> live[i].cond,
             hits |-> live[i].hits, ignore_count |-> live[i].ignore]]

\* The breakpoints part of capture_state_snapshot
CaptureBreakpoints(table, src) ==
    LET listed == ListBreakpoints(table)
    IN  [i \in 1..Len(listed) |->
            [file |-> listed[i].file, line |-> listed[i].line,
             condition |-> listed[i].condition, enabled |-> listed[i].enabled,
             temporary |-> listed[i].temporary, hits |-> listed[i].hits,
             ignore_count |-> listed[i].ignore_count,
             context_snippet |-> src[listed[i].file][listed[i].line]]]

\* BreakpointManager.apply_breakpoint_runtime_state(filename, lineno,
\* enabled, hits, ignore_count) on the breakpoint that was just set
ApplyRuntimeState(table, enabled, hits, ignore_count) ==
    [table EXCEPT ![Len(table)].enabled = enabled,
                  ![Len(table)].hits = hits,
                  ![Len(table)].ignore = ignore_count]

RECURSIVE RestoreBreakpoints(_, _, _)
\* The loop of _apply_debugger_state without code drift: set_breakpoint with
\* the stored file, line and condition, then the runtime state.
RestoreBreakpoints(table, bps, i) ==
    IF i > Len(bps) THEN table
    ELSE LET bp == bps[i]
         IN  IF ~LineExists(bp.file, bp.line)
             THEN RestoreBreakpoints(table, bps, i + 1)
             ELSE RestoreBreakpoints(
                    ApplyRuntimeState(
                        Append(table, BreakpointWith(bp.file, bp.line, FALSE, bp.condition)),
                        bp.enabled, bp.hits, bp.ignore_count),
                    bps, i + 1)

SnapshotFrame ==
    UNCHANGED <<convVars, truncVars, llmVars, regVars, storeVars, watches, source_lines,
                restore_log, perfVars, codecVars, runnerVars, ckptVars, dbg_pc, runs,
                initial_breakpoints, break_on_entry, stack, next_frame_id, target_phase,
                tracing, stopVars, skip_first_stop, break_on_exception, focus_files,
                focus_functions, stop_reason, quitting, rerun_requested, focus_reject,
                resume_log, line_pass, bp_result, restored_summary, load_request,
                replVars, injVars, repl_turn>>

\* BreakpointManager.set_breakpoint with a condition or as a temporary
\* breakpoint, and the counters and the flag a run and the user change.
set_breakpoint_with ==
    /\ rt_snapshot = NoCapture
    /\ Len(bpbynumber) < MaxBreakpoints
    /\ \E l \in Lines, temporary \in BOOLEAN, cond \in Conditions,
          enabled \in BOOLEAN, hits \in 0..1, ignore_count \in 0..1 :
         bpbynumber' = ApplyRuntimeState(
                           Append(bpbynumber, BreakpointWith("a.py", l, temporary, cond)),
                           enabled, hits, ignore_count)
    /\ UNCHANGED rt_snapshot
    /\ SnapshotFrame

capture_state_snapshot ==
    /\ rt_snapshot = NoCapture
    /\ rt_snapshot' = [status |-> "captured",
                       breakpoints |-> CaptureBreakpoints(bpbynumber, source_lines),
                       table |-> ListBreakpoints(bpbynumber)]
    /\ UNCHANGED bpbynumber
    /\ SnapshotFrame

apply_debugger_state ==
    /\ rt_snapshot.status = "captured"
    /\ bpbynumber' = RestoreBreakpoints(ClearAllBreakpoints(bpbynumber),
                                        rt_snapshot.breakpoints, 1)
    /\ rt_snapshot' = [rt_snapshot EXCEPT !.status = "restored"]
    /\ SnapshotFrame

SnapshotNext ==
    \/ set_breakpoint_with
    \/ capture_state_snapshot
    \/ apply_debugger_state

SpecSnapshot == BpInit /\ [][SnapshotNext]_vars

\* C40: after a snapshot is captured and restored without code drift, the
\* table lists the breakpoints that were captured, each with its file,
\* line, condition, enabled flag, temporary flag, hit count and ignore
\* count.
C40_RestoreGivesCapturedTable ==
    rt_snapshot.status = "restored" => ListBreakpoints(bpbynumber) = rt_snapshot.table

====
